---- MODULE Spec2Model ----
(***************************************************************************)
(* Model of the AI wargame engine of project_code.py: the unit and combat  *)
(* model, the board/game state, the move legality and execution engine and *)
(* the turn drivers.                                                       *)
(***************************************************************************)
EXTENDS Integers, Sequences, FiniteSets, TLC

\* Body applied to the value of e.  A local variable of the code that is read
\* several times is bound this way: the bound variable holds the value, where
\* a LET definition stands for its expression.
Once(e, Body(_)) == CHOOSE out \in {Body(x) : x \in {e}} : TRUE

(***************************************************************************)
(* Bounds of the model.                                                    *)
(***************************************************************************)
\* Options.dim: the side of the square board the game is built on.
Dim == 4
\* Options.max_turns: the turn cap the game is played with.
MaxTurns == 4
\* how far outside the board the coordinates fed to the engine may lie.
Margin == 1
\* how far from the source cell the destination of a move played in a turn
\* may lie (the legality claims range over every destination).
Reach == 1

(***************************************************************************)
(* Enumerations.                                                           *)
(***************************************************************************)
Attacker == "Attacker"
Defender == "Defender"
Player == {Attacker, Defender}

\* Player.next
Player_next(p) == IF p = Attacker THEN Defender ELSE Attacker

\* UnitType, in the order of its values 0..4
UnitType == <<"AI", "Tech", "Virus", "Program", "Firewall">>
UnitTypes == {UnitType[i] : i \in 1..5}

\* UnitType.value
TypeValue(t) == CHOOSE i \in 0..4 : UnitType[i + 1] = t

\* Python's None, for an empty cell or an out-of-range lookup
None == [player |-> "None", type |-> "None", health |-> 0]

\* Unit(player, type, health)
Unit(p, t, h) == [player |-> p, type |-> t, health |-> h]

(***************************************************************************)
(* Unit.                                                                   *)
(***************************************************************************)
damage_table ==
    << <<3, 3, 3, 3, 1>>,
       <<1, 1, 6, 1, 1>>,
       <<9, 6, 1, 6, 1>>,
       <<3, 3, 3, 3, 1>>,
       <<1, 1, 1, 1, 1>> >>

repair_table ==
    << <<0, 1, 1, 0, 0>>,
       <<3, 0, 0, 3, 3>>,
       <<0, 0, 0, 0, 0>>,
       <<0, 0, 0, 0, 0>>,
       <<0, 0, 0, 0, 0>> >>

is_alive_noZero(unit) == unit.health >= 0

\* Unit.is_alive
is_alive(unit) == unit.health > 0

Unit_mod_health_noFloor(unit, health_delta) ==
    LET h == unit.health + health_delta
    IN  [unit EXCEPT !.health = IF h > 9 THEN 9 ELSE h]

\* Unit.mod_health: the unit after its health changed by health_delta
Unit_mod_health(unit, health_delta) ==
    LET h == unit.health + health_delta
    IN  [unit EXCEPT !.health = IF h < 0 THEN 0 ELSE IF h > 9 THEN 9 ELSE h]

damage_amount_swapped(self, target) ==
    LET amount == damage_table[TypeValue(target.type) + 1][TypeValue(self.type) + 1]
    IN  IF target.health - amount < 0 THEN target.health ELSE amount

\* Unit.damage_amount
damage_amount(self, target) ==
    LET amount == damage_table[TypeValue(self.type) + 1][TypeValue(target.type) + 1]
    IN  IF target.health - amount < 0 THEN target.health ELSE amount

repair_amount_swapped(self, target) ==
    LET amount == repair_table[TypeValue(target.type) + 1][TypeValue(self.type) + 1]
    IN  IF target.health + amount > 9 THEN 9 - target.health ELSE amount

\* Unit.repair_amount
repair_amount(self, target) ==
    LET amount == repair_table[TypeValue(self.type) + 1][TypeValue(target.type) + 1]
    IN  IF target.health + amount > 9 THEN 9 - target.health ELSE amount

(***************************************************************************)
(* Coord and CoordPair.                                                    *)
(***************************************************************************)
\* the cells of the board
Coords == (0..(Dim - 1)) \X (0..(Dim - 1))

\* the coordinates a caller may hand to the engine, in range or not
ExtCoords == ((0 - Margin)..(Dim - 1 + Margin)) \X ((0 - Margin)..(Dim - 1 + Margin))

\* CoordPair(src, dst)
CoordPair(src, dst) == [src |-> src, dst |-> dst]

\* the moves a caller may hand to the engine
CoordPairs == {CoordPair(s, d) : s \in ExtCoords, d \in ExtCoords}

\* Coord.iter_range: the cells of the square of half-side dist around c
iter_range(c, dist) ==
    ((c[1] - dist)..(c[1] + dist)) \X ((c[2] - dist)..(c[2] + dist))

\* the moves played in the turns of the game loop
TurnMoves == {mv \in CoordPairs : mv.dst \in iter_range(mv.src, Reach)}

\* Coord.iter_adjacent: up, left, down, right
iter_adjacent(c) ==
    << <<c[1] - 1, c[2]>>, <<c[1], c[2] - 1>>, <<c[1] + 1, c[2]>>, <<c[1], c[2] + 1>> >>

\* membership in a Python list of Coords
InList(c, list) == \E i \in 1..Len(list) : list[i] = c

\* A Python str is the sequence of its characters.
\* "ABCDEFGHIJKLMNOPQRSTUVWXYZ" and "0123456789abcdef"
ROW_CHARS == << "A", "B", "C", "D", "E", "F", "G", "H", "I", "J", "K", "L", "M",
                "N", "O", "P", "Q", "R", "S", "T", "U", "V", "W", "X", "Y", "Z" >>
COL_CHARS == << "0", "1", "2", "3", "4", "5", "6", "7",
                "8", "9", "a", "b", "c", "d", "e", "f" >>
\* the lower-case letters, in the order of ROW_CHARS
LOWER_CHARS == << "a", "b", "c", "d", "e", "f", "g", "h", "i", "j", "k", "l", "m",
                  "n", "o", "p", "q", "r", "s", "t", "u", "v", "w", "x", "y", "z" >>
\* the characters str.strip() removes at both ends
Whitespace == {" ", "\t", "\n"}
\* the characters of " ,.:;-_"
Separators == {" ", ",", ".", ":", ";", "-", "_"}

\* str.upper() and str.lower() of one character
upper(ch) ==
    IF \E i \in 1..26 : LOWER_CHARS[i] = ch
    THEN ROW_CHARS[CHOOSE i \in 1..26 : LOWER_CHARS[i] = ch] ELSE ch
lower_asIs(ch) == ch
lower(ch) ==
    IF \E i \in 1..26 : ROW_CHARS[i] = ch
    THEN LOWER_CHARS[CHOOSE i \in 1..26 : ROW_CHARS[i] = ch] ELSE ch

\* str.find of one character: its first index, counted from 0, or -1
find_fromOne(table, ch) ==
    IF \E i \in 1..Len(table) : table[i] = ch
    THEN CHOOSE i \in 1..Len(table) :
             table[i] = ch /\ \A j \in 1..(i - 1) : table[j] # ch
    ELSE 0 - 1
find(table, ch) ==
    IF \E i \in 1..Len(table) : table[i] = ch
    THEN (CHOOSE i \in 1..Len(table) :
              table[i] = ch /\ \A j \in 1..(i - 1) : table[j] # ch) - 1
    ELSE 0 - 1

\* str.strip()
RECURSIVE lstrip(_)
lstrip(s) == IF s # <<>> /\ Head(s) \in Whitespace THEN lstrip(Tail(s)) ELSE s
RECURSIVE rstrip(_)
rstrip(s) ==
    IF s # <<>> /\ s[Len(s)] \in Whitespace
    THEN rstrip(SubSeq(s, 1, Len(s) - 1)) ELSE s
strip(s) == rstrip(lstrip(s))

\* "for sep in " ,.:;-_": s = s.replace(sep, "")"
without_separators_keepsSpace(s) ==
    SelectSeq(s, LAMBDA ch : ch \notin Separators \ {" "})
without_separators(s) == SelectSeq(s, LAMBDA ch : ch \notin Separators)

\* a sequence index as Python resolves it: a negative one counts from the end
PyIndex(table, i) == IF i >= 0 THEN table[i + 1] ELSE table[Len(table) + i + 1]

\* Coord.row_string, Coord.col_string and Coord.to_string
row_string(c) == IF c[1] < 26 THEN PyIndex(ROW_CHARS, c[1]) ELSE "?"
col_string(c) == IF c[2] < 16 THEN PyIndex(COL_CHARS, c[2]) ELSE "?"
Coord_to_string(c) == <<row_string(c), col_string(c)>>

\* the None a from_string returns
NoCoord == <<>>

\* Coord.from_string
Coord_from_string(s) ==
    LET t == without_separators(strip(s))
    IN  IF Len(t) = 2
        THEN <<find(ROW_CHARS, upper(t[1])), find(COL_CHARS, lower(t[2]))>>
        ELSE NoCoord

\* CoordPair.to_string
CoordPair_to_string(coords) ==
    Coord_to_string(coords.src) \o <<" ">> \o Coord_to_string(coords.dst)

\* CoordPair.from_string
CoordPair_from_string(s) ==
    LET t == without_separators(strip(s))
    IN  IF Len(t) = 4
        THEN CoordPair(<<find(ROW_CHARS, upper(t[1])), find(COL_CHARS, lower(t[2]))>>,
                       <<find(ROW_CHARS, upper(t[3])), find(COL_CHARS, lower(t[4]))>>)
        ELSE NoCoord

(***************************************************************************)
(* Game: the state of one Game object is a record                          *)
(*   [board, next_player, turns_played, attacker_has_ai, defender_has_ai]. *)
(***************************************************************************)
\* Game.is_valid_coord
is_valid_coord(coord) ==
    ~(coord[1] < 0 \/ coord[1] >= Dim \/ coord[2] < 0 \/ coord[2] >= Dim)

\* Game.__post_init__: the default board
InitialBoard ==
    LET md == Dim - 1
        placed == << <<0, 0>>, <<1, 0>>, <<0, 1>>, <<2, 0>>, <<0, 2>>, <<1, 1>>,
                     <<md, md>>, <<md - 1, md>>, <<md, md - 1>>, <<md - 2, md>>,
                     <<md, md - 2>>, <<md - 1, md - 1>> >>
        units == << Unit(Defender, "AI", 9), Unit(Defender, "Tech", 9),
                    Unit(Defender, "Tech", 9), Unit(Defender, "Firewall", 9),
                    Unit(Defender, "Firewall", 9), Unit(Defender, "Program", 9),
                    Unit(Attacker, "AI", 9), Unit(Attacker, "Virus", 9),
                    Unit(Attacker, "Virus", 9), Unit(Attacker, "Program", 9),
                    Unit(Attacker, "Program", 9), Unit(Attacker, "Firewall", 9) >>
        \* the sets are made in this order, a later one overwriting an earlier one
        last(c) == CHOOSE i \in 1..12 :
                       /\ placed[i] = c
                       /\ \A j \in 1..12 : placed[j] = c => j <= i
    IN  [c \in Coords |->
            IF \E i \in 1..12 : placed[i] = c THEN units[last(c)] ELSE None]

\* Game(): the game as constructed
NewGame ==
    [board |-> InitialBoard,
     next_player |-> Attacker,
     turns_played |-> 0,
     attacker_has_ai |-> TRUE,
     defender_has_ai |-> TRUE]

clone_alias(heap, self) == [heap |-> heap, id |-> self]

\* Game.clone.  heap is the sequence of the Game objects made so far and self
\* the place of one of them in it: the clone is a new object, with a copy of
\* the board (deepcopy) and of the other fields (immutable values).
clone(heap, self) == [heap |-> Append(heap, heap[self]), id |-> Len(heap) + 1]

\* Game.get
get(g, coord) == IF is_valid_coord(coord) THEN g.board[coord] ELSE None

set_keepsUnit(g, coord, unit) ==
    IF is_valid_coord(coord) /\ unit # None THEN [g EXCEPT !.board[coord] = unit] ELSE g

\* Game.set
set(g, coord, unit) ==
    IF is_valid_coord(coord) THEN [g EXCEPT !.board[coord] = unit] ELSE g

remove_dead_keepsFlags(g, coord) ==
    LET unit == get(g, coord)
    IN  IF unit # None /\ ~is_alive(unit) THEN set(g, coord, None) ELSE g

\* Game.remove_dead
remove_dead(g, coord) ==
    LET unit == get(g, coord)
    IN  IF unit # None /\ ~is_alive(unit)
        THEN LET g1 == set(g, coord, None)
             IN  IF unit.type = "AI"
                 THEN IF unit.player = Attacker
                      THEN [g1 EXCEPT !.attacker_has_ai = FALSE]
                      ELSE [g1 EXCEPT !.defender_has_ai = FALSE]
                 ELSE g1
        ELSE g

\* Game.mod_health.  s = [game, touched]: the game, and the Unit objects whose
\* health this perform_move call has modified so far, each with its cell.
mod_health(s, coord, health_delta) ==
    Once(s, LAMBDA s0 :
    Once(get(s0.game, coord), LAMBDA target :
        IF target # None
        THEN Once(Unit_mod_health(target, health_delta), LAMBDA unit :
             Once(set(s0.game, coord, unit), LAMBDA g1 :
                 [game |-> remove_dead(g1, coord),
                  touched |-> s0.touched \cup {[coord |-> coord, unit |-> unit]}]))
        ELSE s0))

\* the three results of is_valid_move: True, False, and None when the function
\* falls off its end
PyTrue == "True"
PyFalse == "False"
PyNone == "None"

\* is_valid_move, "if unit is AI, Firewall or Program"
lockable(unit) ==
    unit.type = "AI" \/ unit.type = "Firewall" \/ unit.type = "Program"

\* is_valid_move, the attack test: dst is adjacent and holds an opponent
attacks_opponent(g, coords) ==
    LET unitSRC == get(g, coords.src)
        listADJ == iter_adjacent(coords.src)
    IN  /\ InList(coords.dst, listADJ)
        /\ get(g, coords.dst) # None
        /\ get(g, coords.dst).player # unitSRC.player

in_combat_noProgram(g, coords) ==
    LET unitSRC == get(g, coords.src)
        listADJ == iter_adjacent(coords.src)
    IN  \E i \in 1..4 :
            /\ get(g, listADJ[i]) # None
            /\ get(g, listADJ[i]).player # unitSRC.player
            /\ (unitSRC.type = "AI" \/ unitSRC.type = "Firewall")
            /\ listADJ[i] # coords.dst

\* is_valid_move, the combat loop: does it return False ?
in_combat(g, coords) ==
    LET unitSRC == get(g, coords.src)
        listADJ == iter_adjacent(coords.src)
    IN  \E i \in 1..4 :
            /\ get(g, listADJ[i]) # None
            /\ get(g, listADJ[i]).player # unitSRC.player
            /\ lockable(unitSRC)
            /\ listADJ[i] # coords.dst

wrong_direction_swapped(g, coords) ==
    LET unitSRC == get(g, coords.src)
        listADJ == iter_adjacent(coords.src)
    IN  IF lockable(unitSRC)
        THEN IF unitSRC.player = Attacker
             THEN ~InList(coords.dst, <<listADJ[3], listADJ[4]>>)
             ELSE ~InList(coords.dst, <<listADJ[1], listADJ[2]>>)
        ELSE ~InList(coords.dst, listADJ)

wrong_direction_allLimited(g, coords) ==
    LET unitSRC == get(g, coords.src)
        listADJ == iter_adjacent(coords.src)
    IN  IF unitSRC.player = Attacker
        THEN ~InList(coords.dst, <<listADJ[1], listADJ[2]>>)
        ELSE ~InList(coords.dst, <<listADJ[3], listADJ[4]>>)

\* a direction test that limits only the moves onto an empty cell
wrong_direction_movesOnly(g, coords) ==
    LET unitSRC == get(g, coords.src)
        listADJ == iter_adjacent(coords.src)
    IN  IF lockable(unitSRC) /\ get(g, coords.dst) = None
        THEN IF unitSRC.player = Attacker
             THEN ~InList(coords.dst, <<listADJ[1], listADJ[2]>>)
             ELSE ~InList(coords.dst, <<listADJ[3], listADJ[4]>>)
        ELSE ~InList(coords.dst, listADJ)

\* a direction test that lets a Tech or a Virus go to any cell
wrong_direction_anyDistance(g, coords) ==
    LET unitSRC == get(g, coords.src)
        listADJ == iter_adjacent(coords.src)
    IN  IF lockable(unitSRC)
        THEN IF unitSRC.player = Attacker
             THEN ~InList(coords.dst, <<listADJ[1], listADJ[2]>>)
             ELSE ~InList(coords.dst, <<listADJ[3], listADJ[4]>>)
        ELSE FALSE

\* is_valid_move, the direction test: does it return False ?
wrong_direction(g, coords) ==
    LET unitSRC == get(g, coords.src)
        listADJ == iter_adjacent(coords.src)
    IN  IF lockable(unitSRC)
        THEN IF unitSRC.player = Attacker
             THEN ~InList(coords.dst, <<listADJ[1], listADJ[2]>>)
             ELSE ~InList(coords.dst, <<listADJ[3], listADJ[4]>>)
        ELSE ~InList(coords.dst, listADJ)

onto_destination_anyHealth(g, coords) ==
    LET unitSRC == get(g, coords.src)
        unitDST == get(g, coords.dst)
    IN  IF unitDST # None
        THEN IF unitSRC.player = unitDST.player /\ unitSRC.type = "AI"
             THEN IF unitDST.type = "Virus" \/ unitDST.type = "Tech"
                  THEN PyTrue ELSE PyFalse
             ELSE IF unitSRC.player = unitDST.player /\ unitSRC.type = "Tech"
             THEN IF unitDST.type = "AI" \/ unitDST.type = "Firewall"
                        \/ unitDST.type = "Program"
                  THEN PyTrue ELSE PyFalse
             ELSE PyNone
        ELSE PyTrue

\* is_valid_move, its last test, on what dst holds: a repair, or an empty cell
onto_destination(g, coords) ==
    LET unitSRC == get(g, coords.src)
        unitDST == get(g, coords.dst)
    IN  IF unitDST # None
        THEN IF unitSRC.player = unitDST.player /\ unitSRC.type = "AI"
             THEN IF /\ (unitDST.type = "Virus" \/ unitDST.type = "Tech")
                     /\ unitDST.health # 9
                  THEN PyTrue ELSE PyFalse
             ELSE IF unitSRC.player = unitDST.player /\ unitSRC.type = "Tech"
             THEN IF /\ (unitDST.type = "AI" \/ unitDST.type = "Firewall"
                           \/ unitDST.type = "Program")
                     /\ unitDST.health # 9
                  THEN PyTrue ELSE PyFalse
             ELSE PyNone
        ELSE PyTrue

is_valid_move_lockFirst(g, coords) ==
    IF ~is_valid_coord(coords.src) \/ ~is_valid_coord(coords.dst) THEN PyFalse
    ELSE IF get(g, coords.src) = None
            \/ get(g, coords.src).player # g.next_player THEN PyFalse
    ELSE IF in_combat(g, coords) THEN PyFalse
    ELSE IF coords.src = coords.dst THEN PyTrue
    ELSE IF attacks_opponent(g, coords) THEN PyTrue
    ELSE IF wrong_direction(g, coords) THEN PyFalse
    ELSE onto_destination(g, coords)

is_valid_move_attackLast(g, coords) ==
    IF ~is_valid_coord(coords.src) \/ ~is_valid_coord(coords.dst) THEN PyFalse
    ELSE IF get(g, coords.src) = None
            \/ get(g, coords.src).player # g.next_player THEN PyFalse
    ELSE IF coords.src = coords.dst THEN PyTrue
    ELSE IF wrong_direction(g, coords) THEN PyFalse
    ELSE IF attacks_opponent(g, coords) THEN PyTrue
    ELSE IF in_combat(g, coords) THEN PyFalse
    ELSE onto_destination(g, coords)

\* Game.is_valid_move
is_valid_move(g, coords) ==
    IF ~is_valid_coord(coords.src) \/ ~is_valid_coord(coords.dst) THEN PyFalse
    ELSE IF get(g, coords.src) = None
            \/ get(g, coords.src).player # g.next_player THEN PyFalse
    ELSE IF coords.src = coords.dst THEN PyTrue
    ELSE IF attacks_opponent(g, coords) THEN PyTrue
    ELSE IF in_combat(g, coords) THEN PyFalse
    ELSE IF wrong_direction(g, coords) THEN PyFalse
    ELSE onto_destination(g, coords)

Truthy_notFalse(v) == v # PyFalse

\* Python truth of a result of is_valid_move (None is false)
Truthy(v) == v = PyTrue

blast_cells_orthogonal(src) == iter_adjacent(src)

\* the eight cells around src a self-destruct reaches, in the order the code
\* builds them: the four adjacent cells, then the corners taken from the
\* adjacency of the upper and of the lower neighbour
blast_cells(src) ==
    LET listADJ == iter_adjacent(src)
        listTopCorner == iter_adjacent(listADJ[1])
        listBottomCorner == iter_adjacent(listADJ[3])
    IN  listADJ \o <<listTopCorner[2], listTopCorner[4],
                     listBottomCorner[2], listBottomCorner[4]>>

\* the loop "for cell in listADJ: if self.get(cell) is not None:
\* self.mod_health(cell, -2)" of the self-destruct, from index i on
RECURSIVE blast(_, _, _)
blast(s, list, i) ==
    IF i > Len(list) THEN s
    ELSE Once(IF get(s.game, list[i]) # None THEN mod_health(s, list[i], 0 - 2) ELSE s,
              LAMBDA s1 : blast(s1, list, i + 1))

\* Game.perform_move: [game, success, msg, touched]; msg holds the action tag
\* and the coordinates the description string is made of
perform_move(g, coords) ==
    LET unitSRC == get(g, coords.src)
        unitDST == get(g, coords.dst)
        s0 == [game |-> g, touched |-> {}]
        done(s, tag) == Once(s, LAMBDA s2 :
                            [game |-> s2.game, success |-> TRUE, msg |-> tag,
                             touched |-> s2.touched])
    IN  IF Truthy(is_valid_move(g, coords))
        THEN IF get(g, coords.dst) = None
             THEN done([s0 EXCEPT !.game = set(set(g, coords.dst, get(g, coords.src)),
                                               coords.src, None)],
                       <<"move", coords.src, coords.dst>>)
             ELSE IF coords.src = coords.dst
             THEN done(mod_health(Once(blast_cells(coords.src),
                                       LAMBDA cells : blast(s0, cells, 1)),
                                  coords.src, 0 - 9),
                       <<"self-destruct", coords.src>>)
             ELSE IF /\ get(g, coords.src).player = get(g, coords.dst).player
                     /\ get(g, coords.src).type = "AI"
             THEN done(mod_health(s0, coords.dst, repair_amount(unitSRC, unitDST)),
                       <<"repair", coords.src, coords.dst>>)
             ELSE IF /\ get(g, coords.src).player = get(g, coords.dst).player
                     /\ get(g, coords.src).type = "Tech"
             THEN done(mod_health(s0, coords.dst, repair_amount(unitSRC, unitDST)),
                       <<"repair", coords.src, coords.dst>>)
             ELSE LET s1 == mod_health(s0, coords.src,
                                       0 - damage_amount(unitDST, unitSRC))
                      \* unitSRC is the object mod_health has just changed
                      unitSRC1 == Unit_mod_health(unitSRC,
                                                  0 - damage_amount(unitDST, unitSRC))
                  IN  done(mod_health(s1, coords.dst,
                                      0 - damage_amount(unitSRC1, unitDST)),
                           <<"attack", coords.src, coords.dst>>)
        ELSE [game |-> g, success |-> FALSE, msg |-> <<"invalid move">>,
              touched |-> {}]

next_turn_noFlip(g) == [g EXCEPT !.turns_played = g.turns_played + 1]

next_turn_noCount(g) == [g EXCEPT !.next_player = Player_next(g.next_player)]

\* Game.next_turn
next_turn(g) ==
    [g EXCEPT !.next_player = Player_next(g.next_player),
              !.turns_played = g.turns_played + 1]

\* the None of Game.has_winner: the game goes on
NoWinner == "None"

has_winner_bothDeadGoesOn(g, opts, st) ==
    IF g.turns_played >= opts.max_turns THEN Defender
    ELSE IF st.time_limit = TRUE THEN g.next_player
    ELSE IF g.attacker_has_ai
         THEN IF g.defender_has_ai THEN NoWinner ELSE Attacker
         ELSE IF g.defender_has_ai THEN Defender ELSE NoWinner

has_winner_moverWins(g, opts, st) ==
    IF g.turns_played >= opts.max_turns THEN Defender
    ELSE IF st.time_limit = TRUE THEN Player_next(g.next_player)
    ELSE IF g.attacker_has_ai
         THEN IF g.defender_has_ai THEN NoWinner ELSE Attacker
         ELSE Defender

has_winner_timeFirst(g, opts, st) ==
    IF st.time_limit = TRUE THEN g.next_player
    ELSE IF g.turns_played >= opts.max_turns THEN Defender
    ELSE IF g.attacker_has_ai
         THEN IF g.defender_has_ai THEN NoWinner ELSE Attacker
         ELSE Defender

\* Game.has_winner
\* (main always leaves a number in options.max_turns, never None)
has_winner(g, opts, st) ==
    IF g.turns_played >= opts.max_turns THEN Defender
    ELSE IF st.time_limit = TRUE THEN g.next_player
    ELSE IF g.attacker_has_ai
         THEN IF g.defender_has_ai THEN NoWinner ELSE Attacker
         ELSE Defender

\* Game.is_finished
is_finished(g, opts, st) == has_winner(g, opts, st) # NoWinner

(***************************************************************************)
(* The search: move generation, the heuristics, minimax and suggest_move.  *)
(***************************************************************************)
MAX_HEURISTIC_SCORE == 2000000000
MIN_HEURISTIC_SCORE == 0 - 2000000000

Max(a, b) == IF a >= b THEN a ELSE b
Min(a, b) == IF a <= b THEN a ELSE b

\* CoordPair.from_dim(dim).iter_rectangle(): the cells of the board, row by row
iter_rectangle == [i \in 1..(Dim * Dim) |-> <<(i - 1) \div Dim, (i - 1) % Dim>>]

\* Game.player_units: the cells of the units of a player, in board order
player_units(g, player) ==
    SelectSeq(iter_rectangle,
              LAMBDA c : get(g, c) # None /\ get(g, c).player = player)

\* Game.move_candidates, the moves yielded for the unit at src.  The first
\* form yields every adjacent move is_valid_move does not answer False to.
unit_candidates_notFalse(g, src) ==
    SelectSeq([i \in 1..4 |-> CoordPair(src, iter_adjacent(src)[i])],
              LAMBDA move : is_valid_move(g, move) # PyFalse)
        \o <<CoordPair(src, src)>>
unit_candidates(g, src) ==
    SelectSeq([i \in 1..4 |-> CoordPair(src, iter_adjacent(src)[i])],
              LAMBDA move : is_valid_move(g, move) = PyTrue)
        \o <<CoordPair(src, src)>>

RECURSIVE candidates_from(_, _, _)
candidates_from(g, units, i) ==
    IF i > Len(units) THEN <<>>
    ELSE unit_candidates(g, units[i]) \o candidates_from(g, units, i + 1)

\* Game.move_candidates
move_candidates(g) ==
    Once(player_units(g, g.next_player),
         LAMBDA units : candidates_from(g, units, 1))

\* Game.heuristics, one of its two loops: number and summed health of the
\* units of each kind in the cells of a player_units result
RECURSIVE tally(_, _, _)
tally(g, units, i) ==
    IF i > Len(units)
    THEN [t \in UnitTypes |-> [nb |-> 0, health |-> 0]]
    ELSE LET rest == tally(g, units, i + 1)
             unit == get(g, units[i])
             \* the final else of the chain counts whatever is left as an AI
             kind == IF unit.type \in {"Virus", "Tech", "Firewall", "Program"}
                     THEN unit.type ELSE "AI"
         IN  [rest EXCEPT ![kind] = [nb |-> @.nb + 1,
                                     health |-> @.health + unit.health]]

\* Game.heuristics, the units it counts for each side.  The first form takes
\* the units of the player to move for the Attacker's.
sides_moverFirst(g) ==
    [attacker_units |-> player_units(g, g.next_player),
     defender_units |-> player_units(g, Player_next(g.next_player))]
sides(g) ==
    IF g.next_player = Attacker
    THEN [attacker_units |-> player_units(g, g.next_player),
          defender_units |-> player_units(g, Player_next(g.next_player))]
    ELSE [attacker_units |-> player_units(g, Player_next(g.next_player)),
          defender_units |-> player_units(g, g.next_player)]

\* Game.heuristics
heuristics(g, opts) ==
    Once(sides(g), LAMBDA units :
    Once(tally(g, units.attacker_units, 1), LAMBDA A :
    Once(tally(g, units.defender_units, 1), LAMBDA D :
        IF opts.e = "e0"
        THEN (3 * (A["Virus"].nb + A["Tech"].nb + A["Firewall"].nb + A["Program"].nb)
                + 9999 * A["AI"].nb)
             - (3 * (D["Virus"].nb + D["Tech"].nb + D["Firewall"].nb + D["Program"].nb)
                + 9999 * D["AI"].nb)
        ELSE IF opts.e = "e1"
        THEN (A["Virus"].health * A["Virus"].nb + A["Tech"].health * A["Tech"].nb
                + A["Firewall"].health * A["Firewall"].nb
                + A["Program"].health * A["Program"].nb
                + 9999 * A["AI"].health * A["AI"].nb)
             - (D["Virus"].health * D["Virus"].nb + D["Tech"].health * D["Tech"].nb
                + D["Firewall"].health * D["Firewall"].nb
                + D["Program"].health * D["Program"].nb
                + 9999 * D["AI"].health * D["AI"].nb)
        ELSE ((A["Virus"].health + 8 * A["Virus"].nb)
                + (A["Tech"].health + 10 * A["Tech"].nb)
                + (A["Firewall"].health + 10 * A["Firewall"].nb)
                + (A["Program"].health + 8 * A["Program"].nb)
                + 9999 * A["AI"].health * A["AI"].nb)
             - ((D["Virus"].health * D["Virus"].nb)
                + (D["Tech"].health + 8 * D["Tech"].nb)
                + (D["Firewall"].health + 8 * D["Firewall"].nb)
                + (D["Program"].health + 10 * D["Program"].nb)
                + 9999 * D["AI"].health * D["AI"].nb))))

\* The clock of one search.  The search reads the clock once per minimax call
\* and once per pass of the loop of suggest_move; elapsed time only grows, so
\* the test "max_time - elapsed <= (1 / max_depth) / 10" is false up to some
\* read and true from then on.  cut is the number of the first read at which
\* it is true, NoCut when it stays false to the end of the search.
NoCut == 0 - 1
time_up(reads, cut) == cut # NoCut /\ reads >= cut

\* The state a search threads through its calls: ctx = [opts, st, reads, cut,
\* heap] with the shared Options and Stats, the clock reads made so far, and
\* the Game objects: the real game first, then the clones in the order made.
RECURSIVE minimax(_, _, _, _, _, _, _)
RECURSIVE minimax_loop(_, _, _, _, _, _, _)

\* "perform alpha-beta pruning if alpha_beta == True": the test that leaves the
\* loop over the children.  The first form tests the window the wrong way round.
pruning_inverted(opts, alpha, beta) == opts.alpha_beta = TRUE /\ alpha <= beta
pruning(opts, alpha, beta) == opts.alpha_beta = TRUE /\ beta <= alpha

\* Game.minimax, its first statement: the call is counted at its depth, and
\* the clock is read
count_evaluation(ctx, depth) ==
    [ctx EXCEPT !.st.evaluations_per_depth[ctx.opts.max_depth - depth] = @ + 1,
                !.reads = @ + 1]

\* Game.minimax, from the clone to the loops: node_clone is a new object, the
\* move is performed on it and "next move will belong to opponent"; its
\* children are listed and counted when the move succeeded
expand_node(self, node, ctx1) ==
    Once(clone(ctx1.heap, self), LAMBDA made :
    Once(perform_move(made.heap[made.id], node), LAMBDA pm :
    Once([pm.game EXCEPT !.next_player = Player_next(@)], LAMBDA moved :
    Once(IF pm.success THEN move_candidates(moved) ELSE <<>>, LAMBDA node_list :
        [node_clone |-> made.id,
         node_list |-> node_list,
         ctx |-> [ctx1 EXCEPT
                     !.st.non_leaf = IF pm.success THEN @ + 1 ELSE @,
                     !.st.non_root = IF pm.success THEN @ + Len(node_list) ELSE @,
                     !.heap = [made.heap EXCEPT ![made.id] = moved]]]))))

\* Game.minimax, the state its loop starts from
loop_start(maximizing, alpha, beta, ctx) ==
    [v |-> IF maximizing THEN MIN_HEURISTIC_SCORE ELSE MAX_HEURISTIC_SCORE,
     alpha |-> alpha, beta |-> beta, ctx |-> ctx, broke |-> FALSE]

\* Game.minimax, the body of its loop after the call: r is what the call on
\* the child returned, s the state of the loop
loop_body(maximizing, s, r) ==
    [v |-> IF maximizing THEN Max(s.v, r.v) ELSE Min(s.v, r.v),
     alpha |-> IF maximizing THEN Max(s.alpha, r.v) ELSE s.alpha,
     beta |-> IF maximizing THEN s.beta ELSE Min(s.beta, r.v),
     ctx |-> r.ctx,
     broke |-> pruning(r.ctx.opts,
                       IF maximizing THEN Max(s.alpha, r.v) ELSE s.alpha,
                       IF maximizing THEN s.beta ELSE Min(s.beta, r.v))]

\* Game.minimax, its loop over the children node_list[lo] .. node_list[hi] in
\* this order, from the state s: the first half of them, then the second half
\* from the state the first half left.  In s, v is max_eval or min_eval and
\* broke tells that the loop was left by break: no pass changes s any more.
\* (x \in {e} binds x to the value of e, as Once does.)
minimax_loop(node_clone, node_list, lo, hi, depth, maximizing, s) ==
    IF lo = hi
    THEN IF s.broke THEN s
         ELSE CHOOSE out \in
                  {loop_body(maximizing, s, r) :
                      r \in {minimax(node_clone, node_list[lo], depth - 1,
                                     s.alpha, s.beta, ~maximizing, s.ctx)}} : TRUE
    ELSE CHOOSE out \in
             {minimax_loop(node_clone, node_list, (lo + hi) \div 2 + 1, hi,
                           depth, maximizing, half) :
                 half \in {minimax_loop(node_clone, node_list, lo,
                                        (lo + hi) \div 2, depth, maximizing, s)}} :
             TRUE

\* Game.minimax; self and game are the same object in every call, given by
\* its place in the heap.  The value returned is v, ctx is the state the call
\* leaves.
minimax(self, node, depth, alpha, beta, maximizing, ctx) ==
    IF depth = 0 \/ time_up(ctx.reads, ctx.cut)
    THEN [v |-> heuristics(ctx.heap[self], ctx.opts),
          ctx |-> count_evaluation(ctx, depth)]
    ELSE CHOOSE out \in
             {IF Len(x.node_list) = 0
              THEN loop_start(maximizing, alpha, beta, x.ctx)
              ELSE minimax_loop(x.node_clone, x.node_list, 1, Len(x.node_list),
                                depth, maximizing,
                                loop_start(maximizing, alpha, beta, x.ctx)) :
                 x \in {expand_node(self, node, count_evaluation(ctx, depth))}} :
             TRUE

\* Game.suggest_move, the body of its loop after the call: value is what
\* minimax returned for child, s the state of the loop.  In the first form a
\* score keeps the first child that got it.
suggest_body_keepsFirst(child, s, value) ==
    [dict |-> [k \in (DOMAIN s.dict) \cup {value.v} |->
                  IF k \in DOMAIN s.dict THEN s.dict[k] ELSE child],
     ctx |-> value.ctx,
     broke |-> FALSE]
suggest_body(child, s, value) ==
    [dict |-> [k \in (DOMAIN s.dict) \cup {value.v} |->
                  IF k = value.v THEN child ELSE s.dict[k]],
     ctx |-> value.ctx,
     broke |-> FALSE]

\* Game.suggest_move, its loop over candidates[lo] .. candidates[hi] in this
\* order, from the state s: the first half of them, then the second half from
\* the state the first half left.  In s, dict maps a score to the last child
\* that got it and broke tells that the loop was left by break.
RECURSIVE suggest_loop(_, _, _, _, _, _)
suggest_loop(minimax_clone, candidates, lo, hi, maximize, s) ==
    IF lo = hi
    THEN IF s.broke THEN s
         ELSE IF time_up(s.ctx.reads, s.ctx.cut)
         THEN [dict |-> s.dict, ctx |-> [s.ctx EXCEPT !.reads = @ + 1],
               broke |-> TRUE]
         ELSE CHOOSE out \in
                  {suggest_body(candidates[lo], s, value) :
                      value \in {minimax(minimax_clone, candidates[lo],
                                         s.ctx.opts.max_depth - 1,
                                         MIN_HEURISTIC_SCORE, MAX_HEURISTIC_SCORE,
                                         maximize,
                                         [s.ctx EXCEPT !.reads = @ + 1,
                                                       !.st.non_root = @ + 1])}} :
                  TRUE
    ELSE CHOOSE out \in
             {suggest_loop(minimax_clone, candidates, (lo + hi) \div 2 + 1, hi,
                           maximize, half) :
                 half \in {suggest_loop(minimax_clone, candidates, lo,
                                        (lo + hi) \div 2, maximize, s)}} :
             TRUE

\* max(dict) and min(dict): the largest and the smallest key
MaxKey(dict) == CHOOSE k \in DOMAIN dict : \A j \in DOMAIN dict : j <= k
MinKey(dict) == CHOOSE k \in DOMAIN dict : \A j \in DOMAIN dict : j >= k

\* the move of a search that raised before it had one
NoMove == CoordPair(<<0 - 1, 0 - 1>>, <<0 - 1, 0 - 1>>)

\* Game.suggest_move, what it does to the Stats before its loop: non_root and
\* non_leaf are set to 0, the root is counted at depth 0 and as a non-leaf
\* node.  The first form leaves out the reset.
root_stats_noReset(st) ==
    [st EXCEPT !.non_leaf = @ + 1, !.evaluations_per_depth[0] = @ + 1]
root_stats(st) ==
    [st EXCEPT !.non_root = 0, !.non_leaf = 1, !.evaluations_per_depth[0] = @ + 1]

\* Game.suggest_move: [raised, move, score, dict, st, heap]; raised when max()
\* or min() of the empty dict raises ValueError.  heap[1] is the real game as
\* the search leaves it, the other objects are the clones the search made.
suggest_move(g, opts, st, cut) ==
    Once(clone(<<g>>, 1), LAMBDA made :
    Once(move_candidates(made.heap[made.id]), LAMBDA candidates :
    Once([opts |-> opts, st |-> root_stats(st),
          reads |-> 0, cut |-> cut, heap |-> made.heap], LAMBDA ctx0 :
    Once(IF Len(candidates) = 0
         THEN [dict |-> <<>>, ctx |-> ctx0, broke |-> FALSE]
         ELSE suggest_loop(made.id, candidates, 1, Len(candidates),
                           ~(made.heap[made.id].next_player # Attacker),
                           [dict |-> <<>>, ctx |-> ctx0, broke |-> FALSE]),
         LAMBDA done :
        IF DOMAIN done.dict = {}
        THEN [raised |-> TRUE, move |-> NoMove, score |-> 0, dict |-> done.dict,
              st |-> done.ctx.st, heap |-> done.ctx.heap]
        ELSE Once(IF done.ctx.heap[made.id].next_player = Attacker
                  THEN MaxKey(done.dict) ELSE MinKey(done.dict), LAMBDA score :
             [raised |-> FALSE, move |-> done.dict[score], score |-> score,
              dict |-> done.dict, st |-> done.ctx.st, heap |-> done.ctx.heap])))))

(***************************************************************************)
(* The program: main's game loop over the real game.                       *)
(***************************************************************************)
VARIABLES
    game,       \* the real Game
    options,    \* its Options
    stats,      \* its Stats, shared with every clone
    result,     \* what the last perform_move on the real game returned
    touched,    \* the units that call modified, as it left them
    clones,     \* the clones of the game the last suggest_move made
    fault,      \* the exception that ended the program, "none" while it runs
    clock       \* what the clock showed during the last timed search

vars == <<game, options, stats, result, touched, clones, fault, clock>>

\* no search has been timed
NoClock == [early |-> 0, late |-> 0, jump |-> 0, end |-> 0]

\* the largest Options.max_depth played with
MaxDepth == 2
\* Options.max_turns of the games the computer plays in
MaxCompTurns == 2
\* the latest clock read of a search at which the time test may turn true
MaxCut == 2

GameTypes == {"AttackerVsDefender", "AttackerVsComp", "CompVsDefender", "CompVsComp"}

\* Stats(); main fills evaluations_per_depth with 0 for 0..max_depth when the
\* computer plays
NewStats(depths) ==
    [evaluations_per_depth |-> [d \in depths |-> 0],
     non_leaf |-> 0,
     non_root |-> 0,
     time_limit |-> FALSE]

\* main: does the human play the next turn ?
HumanToMove ==
    \/ options.game_type = "AttackerVsDefender"
    \/ options.game_type = "AttackerVsComp" /\ game.next_player = Attacker
    \/ options.game_type = "CompVsDefender" /\ game.next_player = Defender

\* main, up to the game loop, for a game between two humans
Init ==
    /\ game = NewGame
    /\ options = [game_type |-> "AttackerVsDefender", max_turns |-> MaxTurns,
                  max_depth |-> MaxDepth, alpha_beta |-> TRUE, e |-> "None"]
    /\ stats = NewStats({})
    /\ result = [success |-> FALSE, msg |-> <<"none">>]
    /\ touched = {}
    /\ clones = {}
    /\ fault = "none"
    /\ clock = NoClock

\* main, up to the game loop, for a game the computer plays in
InitComp ==
    /\ game = NewGame
    /\ options \in [game_type : GameTypes \ {"AttackerVsDefender"},
                    max_turns : {MaxCompTurns},
                    max_depth : 1..MaxDepth,
                    alpha_beta : BOOLEAN,
                    e : {"e0", "e1", "e2"}]
    /\ stats = NewStats(0..options.max_depth)
    /\ result = [success |-> FALSE, msg |-> <<"none">>]
    /\ touched = {}
    /\ clones = {}
    /\ fault = "none"
    /\ clock = NoClock

\* A game between two humans that is well under way.  Most units have died;
\* the two AIs, a Virus of the Attacker and a Tech of the Defender stand on the
\* four central cells, in any arrangement, each with a health the game can
\* have brought it to (a unit that attacks a Firewall loses 1 each time, so
\* every health from 9 down is within reach of every unit).
\* the rounds played so far
MidRound == 10
\* the turns left to play
MidPlies == 2
\* the healths of the units: nearly dead, or untouched
LowHealth == 1
MidHealths == {LowHealth, 9}
MidCells == (1..2) \X (1..2)
MidRoster == << [player |-> Attacker, type |-> "AI"],
                [player |-> Defender, type |-> "AI"],
                [player |-> Attacker, type |-> "Virus"],
                [player |-> Defender, type |-> "Tech"] >>

MidBoards ==
    {[c \in Coords |->
         IF \E i \in 1..4 : place[i] = c
         THEN LET i == CHOOSE i \in 1..4 : place[i] = c
              IN  Unit(MidRoster[i].player, MidRoster[i].type, hp[i])
         ELSE None] :
     place \in {f \in [1..4 -> MidCells] :
                   \A i, j \in 1..4 : f[i] = f[j] => i = j},
     hp \in [1..4 -> MidHealths]}

MidGames ==
    {[board |-> b,
      next_player |-> p,
      turns_played |-> 2 * MidRound + (IF p = Attacker THEN 0 ELSE 1),
      attacker_has_ai |-> TRUE,
      defender_has_ai |-> TRUE] : b \in MidBoards, p \in Player}

\* main and the turns played so far, for a game between two humans under way;
\* the game as constructed is one of them
InitMid ==
    /\ game \in MidGames \cup {NewGame}
    /\ options = [game_type |-> "AttackerVsDefender",
                  max_turns |-> game.turns_played + MidPlies,
                  max_depth |-> MaxDepth, alpha_beta |-> TRUE, e |-> "None"]
    /\ stats = NewStats({})
    /\ result = [success |-> FALSE, msg |-> <<"none">>]
    /\ touched = {}
    /\ clones = {}
    /\ fault = "none"
    /\ clock = NoClock

\* Game.human_turn, one pass of its loop: a move is read from the keyboard or
\* the broker and performed; the turn passes when it succeeded
HumanTurn(mv) ==
    /\ fault = "none"
    /\ has_winner(game, options, stats) = NoWinner
    /\ HumanToMove
    /\ \E r \in {perform_move(game, mv)} :
           /\ game' = IF r.success THEN next_turn(r.game) ELSE r.game
           /\ result' = [success |-> r.success, msg |-> r.msg]
           /\ touched' = r.touched
    /\ UNCHANGED <<options, stats, clones, fault, clock>>

\* main, up to the game loop, for a short game between two humans at the
\* keyboard
\* Options.max_turns of that game
TextTurns == 2
InitText ==
    /\ game = NewGame
    /\ options = [game_type |-> "AttackerVsDefender", max_turns |-> TextTurns,
                  max_depth |-> MaxDepth, alpha_beta |-> TRUE, e |-> "None"]
    /\ stats = NewStats({})
    /\ result = [success |-> FALSE, msg |-> <<"none">>]
    /\ touched = {}
    /\ clones = {}
    /\ fault = "none"
    /\ clock = NoClock

\* what a player types for a move: the text of the move as the program prints
\* it, the same in the other case of the letters, with other separators, and
\* lines that are not a move
TypedLines ==
    UNION {{CoordPair_to_string(mv),
            [i \in 1..5 |-> lower(upper(CoordPair_to_string(mv)[i]))],
            [i \in 1..5 |-> upper(CoordPair_to_string(mv)[i])],
            <<" ">> \o Coord_to_string(mv.src) \o <<"-", "_">>
                   \o Coord_to_string(mv.dst) \o <<"\n">>} : mv \in TurnMoves}
        \cup {<<>>, <<"A", "0">>, <<"A", "0", " ", "A">>,
              <<"1", "A", " ", "A", "1">>, <<"A", "g", " ", "A", "1">>,
              <<"A", "0", "A", "1", "A">>, <<"A", "0", "/", "A", "1">>}

\* Game.read_move, one pass of its loop: the move typed, NoCoord when the
\* line is answered by 'Invalid coordinates! Try again.'
read_move(s) ==
    LET coords == CoordPair_from_string(s)
    IN  IF coords # NoCoord /\ is_valid_coord(coords.src)
                           /\ is_valid_coord(coords.dst)
        THEN coords ELSE NoCoord

\* Game.human_turn at the keyboard, one line typed: a line read_move refuses
\* changes nothing, a move is performed and the turn passes when it
\* succeeded
HumanTurnTyped(s) ==
    /\ fault = "none"
    /\ has_winner(game, options, stats) = NoWinner
    /\ HumanToMove
    /\ \E mv \in {read_move(s)} :
           IF mv = NoCoord THEN UNCHANGED <<game, result, touched>>
           ELSE \E r \in {perform_move(game, mv)} :
                    /\ game' = IF r.success THEN next_turn(r.game) ELSE r.game
                    /\ result' = [success |-> r.success, msg |-> r.msg]
                    /\ touched' = r.touched
    /\ UNCHANGED <<options, stats, clones, fault, clock>>

\* Game.computer_turn: the move of a search is performed and the turn passes;
\* over tells whether the search took more than max_time.  A search that
\* raises ends the program.
computer_turn(cut, over) ==
    /\ fault = "none"
    /\ has_winner(game, options, stats) = NoWinner
    /\ ~HumanToMove
    /\ \E sm \in {suggest_move(game, options, stats, cut)} :
           /\ clones' = {sm.heap[i] : i \in 2..Len(sm.heap)}
           /\ IF sm.raised
              THEN /\ fault' = "ValueError"
                   /\ stats' = sm.st
                   /\ game' = sm.heap[1]
                   /\ UNCHANGED <<result, touched>>
              ELSE \E r \in {perform_move(sm.heap[1], sm.move)} :
                   /\ fault' = "none"
                   /\ game' = IF r.success THEN next_turn(r.game) ELSE r.game
                   /\ result' = [success |-> r.success, msg |-> r.msg]
                   /\ touched' = r.touched
                   /\ stats' = IF r.success /\ over
                               THEN [sm.st EXCEPT !.time_limit = TRUE]
                               ELSE sm.st
    /\ UNCHANGED options

\* Game.computer_turn with the clock of the search left abstract
ComputerTurn(cut, over) == computer_turn(cut, over) /\ UNCHANGED clock

\* main and the turns played so far, for a game between two computers under
\* way.  The search is deep enough for alpha-beta to matter: the root gives
\* each candidate the full window and the children of a node of depth 1 all
\* get the score of the node's own position, so a window narrowed by earlier
\* siblings first meets scores that differ at depth 2 of a search of depth 4.
\* The games are played with alpha_beta on.
\* Options.max_depth of these games
SearchDepth == 4
\* the turns left to play in them
SearchPlies == 2
\* the AIs stand untouched on opposite corners of the four cells
SearchGames ==
    {g \in MidGames :
        /\ g.board[<<1, 1>>] = Unit(Attacker, "AI", 9)
        /\ g.board[<<2, 2>>] = Unit(Defender, "AI", 9)}

InitSearch ==
    /\ game \in SearchGames
    /\ options \in [game_type : {"CompVsComp"},
                    max_turns : {game.turns_played + SearchPlies},
                    max_depth : {SearchDepth},
                    alpha_beta : {TRUE},
                    e : {"e0", "e1", "e2"}]
    /\ stats = NewStats(0..options.max_depth)
    /\ result = [success |-> FALSE, msg |-> <<"none">>]
    /\ touched = {}
    /\ clones = {}
    /\ fault = "none"
    /\ clock = NoClock

\* the clock behaviours of a search
Cuts == (0..MaxCut) \cup {NoCut}

Next == \E mv \in TurnMoves : HumanTurn(mv)

NextComp ==
    \/ \E mv \in TurnMoves : HumanTurn(mv)
    \/ \E cut \in Cuts : \E over \in BOOLEAN : ComputerTurn(cut, over)

\* a game between two humans
Spec == Init /\ [][Next]_vars

\* a game the computer plays in
SpecComp == InitComp /\ [][NextComp]_vars

\* main, a pass of the game loop in which the turn completes: the human's
\* move, or the move of the search, is performed with success
CompletedTurn == NextComp /\ result'.success /\ fault' = "none"

\* main, up to the game loop, for a game the computer plays in with a search
\* of depth 1
InitLive == InitComp /\ options.max_depth = 1

\* these games with players who do not go on failing for ever: human_turn
\* asks again until a move succeeds, and a player who can complete the turn
\* does so in the end
FairComp == InitLive /\ [][NextComp]_vars /\ WF_vars(CompletedTurn)

\* a game between two humans, under way
SpecMid == InitMid /\ [][Next]_vars

\* the lines typed in a game at the keyboard
NextText == \E s \in TypedLines : HumanTurnTyped(s)

\* a game between two humans at the keyboard
SpecText == InitText /\ [][NextText]_vars

\* the turns of two computers whose searches end well within max_time
NextSearch == ComputerTurn(NoCut, FALSE)

\* a game between two computers, under way
SpecSearch == InitSearch /\ [][NextSearch]_vars

\* The clock in numbers.  Times are counted in ticks, TicksPerSecond to the
\* second, and taken as exact: the rounding of Python's floats is left out.
TicksPerSecond == 20
\* the largest Options.max_time of a timed game, in seconds
MaxSeconds == 2
\* how many ticks before max_time the clock is looked at
MaxMargin == 2

\* Game.minimax and Game.suggest_move, the time test
\*     (max_time - elapsed_seconds) <= (1 / max_depth) / 10
\* with the times in ticks and both sides multiplied by 10 * max_depth, which
\* is positive in the games played here (max_depth = 0 divides by zero)
time_test(opts, elapsed) ==
    (opts.max_time - elapsed) * 10 * opts.max_depth <= TicksPerSecond

\* The clocks of a timed search: elapsed_seconds is early at the reads before
\* read number jump (the first read has number 0), late from then on, and end
\* when suggest_move takes the time of the whole search.
Readings(opts) == {0} \cup {opts.max_time - k : k \in 1..MaxMargin}
Clocks(opts) ==
    {c \in [early : Readings(opts), late : Readings(opts), jump : 1..MaxCut,
            end : Readings(opts) \cup {opts.max_time + 1}] :
        /\ c.early <= c.late
        /\ c.end \in {c.late, opts.max_time + 1}}

\* the number of the first read of clock c at which the time test holds
first_cut(opts, c) ==
    IF time_test(opts, c.early) THEN 0
    ELSE IF time_test(opts, c.late) THEN c.jump
    ELSE NoCut

\* main, up to the game loop, for a game between two computers with max_time
\* of one second and more
InitClock ==
    /\ game = NewGame
    /\ options \in [game_type : {"CompVsComp"},
                    max_turns : {MaxCompTurns},
                    max_depth : 1..MaxDepth,
                    max_time : {k * TicksPerSecond : k \in 1..MaxSeconds},
                    alpha_beta : {FALSE},
                    e : {"e0"}]
    /\ stats = NewStats(0..options.max_depth)
    /\ result = [success |-> FALSE, msg |-> <<"none">>]
    /\ touched = {}
    /\ clones = {}
    /\ fault = "none"
    /\ clock = NoClock

\* Game.computer_turn under the clock c
ComputerTurnTimed(c) ==
    /\ computer_turn(first_cut(options, c), c.end > options.max_time)
    /\ clock' = c

NextClock == \E c \in Clocks(options) : ComputerTurnTimed(c)

\* the timed turns of two computers
SpecClock == InitClock /\ [][NextClock]_vars

(***************************************************************************)
(* Properties.                                                             *)
(***************************************************************************)
\* the unit of the real game at a cell
At(c) == get(game, c)

\* a unit of the player to move stands at c
OwnAt(c) == At(c) # None /\ At(c).player = game.next_player

\* an enemy of the unit at src stands at c
EnemyAt(src, c) == At(c) # None /\ At(c).player # At(src).player

\* the unit at src has an enemy on one of its four adjacent cells
Engaged(src) == \E i \in 1..4 : EnemyAt(src, iter_adjacent(src)[i])

Legal(src, dst) == is_valid_move(game, CoordPair(src, dst)) = PyTrue

\* C1, state part: every unit on the board has health 1..9, every unit the
\* last call modified has health 0..9, and one it brought to 0 is off its cell
C1_Health ==
    /\ \A c \in Coords : At(c) # None => At(c).health \in 1..9
    /\ \A t \in touched :
           /\ t.unit.health \in 0..9
           /\ t.unit.health = 0 => At(t.coord) = None
           /\ t.unit.health > 0 => At(t.coord) = t.unit

\* C1, step part: a cell is emptied only under a unit the call brought to 0,
\* or as the source of a relocation, which puts the unit on the destination
C1_Removal ==
    \A c \in Coords :
        (At(c) # None /\ get(game', c) = None) =>
            \/ \E t \in touched' : t.coord = c /\ t.unit.health = 0
            \/ /\ result'.msg[1] = "move"
               /\ result'.msg[2] = c
               /\ get(game', result'.msg[3]) = At(c)

\* C1: health stays in [0,9], units on the board have health in [1,9], a unit
\* reaching 0 leaves its cell in the call that modified it, and a cell is
\* emptied only then or by a relocation.
C1_HealthBounds == [](C1_Health) /\ [][C1_Removal]_vars

\* C1 witness: a call brought one unit to 0, which left the board, and
\* damaged another one, which stayed
C1_Witness ==
    /\ \E t \in touched : t.unit.health = 0 /\ At(t.coord) = None
    /\ \E t \in touched : t.unit.health \in 1..8 /\ At(t.coord) = t.unit

\* the has-AI flags of a game agree with its board
FlagsConsistent(g) ==
    /\ g.attacker_has_ai <=>
           \E c \in Coords : g.board[c] # None /\ g.board[c].type = "AI"
                             /\ g.board[c].player = Attacker
    /\ g.defender_has_ai <=>
           \E c \in Coords : g.board[c] # None /\ g.board[c].type = "AI"
                             /\ g.board[c].player = Defender

\* C2: in the real game and in every clone a search makes, each has-AI flag
\* is true exactly when the board holds the AI of that player.
C2_FlagsConsistent ==
    /\ FlagsConsistent(game)
    /\ \A g \in clones : FlagsConsistent(g)

\* C2 witness: the real game has lost the AI of the Defender, and the last
\* search made a clone in which the AI of the Attacker died
C2_Witness ==
    /\ ~game.defender_has_ai
    /\ game.attacker_has_ai
    /\ \E g \in clones : ~g.attacker_has_ai /\ g.defender_has_ai

\* C3, state part: whatever move is not valid, perform_move returns
\* (False, "invalid move") and the game it was given
C3_Rejects ==
    \A mv \in CoordPairs :
        is_valid_move(game, mv) # PyTrue =>
            perform_move(game, mv) =
                [game |-> game, success |-> FALSE, msg |-> <<"invalid move">>,
                 touched |-> {}]

\* C3, step part: a turn whose move failed leaves the game as it was
C3_Frame ==
    ~result'.success =>
        /\ result'.msg = <<"invalid move">>
        /\ game' = game
        /\ stats' = stats

\* C3: a move is_valid_move does not accept returns (False, "invalid move")
\* and changes neither the board, the has-AI flags, next_player nor
\* turns_played.
C3_InvalidMoveNoMutation == [](C3_Rejects) /\ [][C3_Frame]_vars

\* C3 witness: a move was rejected in a game already under way, in which
\* is_valid_move falls off its end for some move (a unit onto a friend)
C3_Witness ==
    /\ result = [success |-> FALSE, msg |-> <<"invalid move">>]
    /\ game.turns_played > 0
    /\ \E mv \in CoordPairs : is_valid_move(game, mv) = PyNone

\* C4, state part: next_player is the Attacker exactly on even turns, and
\* perform_move on its own leaves turns_played and next_player alone
C4_Parity ==
    /\ (game.next_player = Attacker) <=> (game.turns_played % 2 = 0)
    /\ \A mv \in TurnMoves :
           LET r == perform_move(game, mv)
           IN  /\ r.game.turns_played = game.turns_played
               /\ r.game.next_player = game.next_player

\* C4, step part: a turn either adds one to turns_played and passes the move
\* to the other player, which it does exactly when its move was performed, or
\* leaves the game as it was
C4_Step ==
    LET advanced == /\ game'.turns_played = game.turns_played + 1
                    /\ game'.next_player = Player_next(game.next_player)
    IN  /\ advanced \/ game' = game
        /\ advanced <=> (result'.success /\ game'.board # game.board)
        /\ advanced => fault' = "none"

\* C4: in the real game turns_played grows by one and next_player flips
\* exactly when a human or computer turn performs a move; perform_move and a
\* rejected move change neither, so the Attacker is to move exactly on even
\* turns.
C4_TurnAlternation == [](C4_Parity) /\ [][C4_Step]_vars

\* C4 witness: a human turn and then a computer turn have each performed a
\* move
C4_Witness ==
    /\ options.game_type = "AttackerVsComp"
    /\ game.turns_played = 2
    /\ game.next_player = Attacker
    /\ clones # {}
    /\ result.success

\* C5: the self-destruct of any unit of the player to move is legal, whatever
\* its kind and whatever stands around it.
C5_SelfDestructLegal ==
    \A c \in Coords : OwnAt(c) => Legal(c, c)

\* C5 witness: the player to move has a unit in combat that the lock would
\* hold, and one with no unit at all on its adjacent cells
C5_Witness ==
    /\ \E c \in Coords : OwnAt(c) /\ lockable(At(c)) /\ Engaged(c)
    /\ \E c \in Coords :
           OwnAt(c) /\ \A i \in 1..4 : At(iter_adjacent(c)[i]) = None

\* C6: an AI, Firewall or Program with an enemy on an adjacent cell is
\* accepted only onto its own cell or onto an adjacent enemy.
C6_LockedUnit ==
    \A src \in Coords :
        (At(src) # None /\ lockable(At(src)) /\ Engaged(src)) =>
            \A dst \in ExtCoords :
                Legal(src, dst) =>
                    \/ dst = src
                    \/ InList(dst, iter_adjacent(src)) /\ EnemyAt(src, dst)

\* C6 witness: a unit of the player to move is locked while the empty cell in
\* its own direction of movement is free, and it has a legal attack
C6_Witness ==
    \E src \in Coords :
        /\ OwnAt(src) /\ lockable(At(src)) /\ Engaged(src)
        /\ \E dst \in Coords :
               /\ At(dst) = None
               /\ ~wrong_direction(game, CoordPair(src, dst))
               /\ ~Legal(src, dst)
        /\ \E dst \in Coords : dst # src /\ Legal(src, dst)

\* C7: an AI, Firewall or Program of the player to move that is not in
\* combat may move onto an empty cell exactly when that cell is its upper or
\* left neighbour (Attacker), its lower or right neighbour (Defender).
C7_Direction ==
    \A src \in Coords :
        (OwnAt(src) /\ lockable(At(src)) /\ ~Engaged(src)) =>
            \A dst \in ExtCoords :
                (is_valid_coord(dst) /\ At(dst) = None) =>
                    (Legal(src, dst) <=>
                        IF At(src).player = Attacker
                        THEN dst = <<src[1] - 1, src[2]>> \/ dst = <<src[1], src[2] - 1>>
                        ELSE dst = <<src[1] + 1, src[2]>> \/ dst = <<src[1], src[2] + 1>>)

\* C7 witness: such a unit has an empty cell it may enter and an empty
\* adjacent cell in the other direction that it may not
C7_Witness ==
    \E src \in Coords :
        /\ OwnAt(src) /\ lockable(At(src)) /\ ~Engaged(src)
        /\ \E i, j \in 1..4 :
               /\ is_valid_coord(iter_adjacent(src)[i])
               /\ is_valid_coord(iter_adjacent(src)[j])
               /\ At(iter_adjacent(src)[i]) = None
               /\ At(iter_adjacent(src)[j]) = None
               /\ Legal(src, iter_adjacent(src)[i])
               /\ ~Legal(src, iter_adjacent(src)[j])

\* C8: a Tech or Virus of the player to move may move onto any empty cell of
\* the board adjacent to it, in combat or not.
C8_TechVirusFree ==
    \A src \in Coords :
        (OwnAt(src) /\ (At(src).type = "Tech" \/ At(src).type = "Virus")) =>
            \A i \in 1..4 :
                LET dst == iter_adjacent(src)[i]
                IN  (is_valid_coord(dst) /\ At(dst) = None) => Legal(src, dst)

\* C8 witness: a Tech or Virus of the player to move has an enemy on an
\* adjacent cell and an empty adjacent cell
C8_Witness ==
    \E src \in Coords :
        /\ OwnAt(src) /\ (At(src).type = "Tech" \/ At(src).type = "Virus")
        /\ Engaged(src)
        /\ \E i \in 1..4 :
               /\ is_valid_coord(iter_adjacent(src)[i])
               /\ At(iter_adjacent(src)[i]) = None

\* C9: a unit of the player to move may always move onto an enemy on any of
\* its four adjacent cells.
C9_AttackAnyDirection ==
    \A src \in Coords :
        OwnAt(src) =>
            \A i \in 1..4 :
                EnemyAt(src, iter_adjacent(src)[i]) =>
                    Legal(src, iter_adjacent(src)[i])

\* C9 witness: an AI, Firewall or Program of the player to move has an enemy
\* in a direction it may not move in, and a second enemy beside it
C9_Witness ==
    \E src \in Coords :
        /\ OwnAt(src) /\ lockable(At(src))
        /\ \E i, j \in 1..4 :
               /\ i # j
               /\ EnemyAt(src, iter_adjacent(src)[i])
               /\ EnemyAt(src, iter_adjacent(src)[j])
               /\ wrong_direction(game, CoordPair(src, iter_adjacent(src)[i]))

\* the kinds of a supported repair
RepairPair(a, b) ==
    \/ a.type = "AI" /\ (b.type = "Tech" \/ b.type = "Virus")
    \/ a.type = "Tech" /\ (b.type = "AI" \/ b.type = "Firewall" \/ b.type = "Program")

\* C10: onto another cell that holds a friendly unit, a move is accepted only
\* when it is a supported repair of a unit below health 9; any other such move
\* is not accepted and not executed, and an accepted one leaves every unit on
\* its cell.
C10_FriendlyDestination ==
    \A src \in Coords :
        OwnAt(src) =>
            \A dst \in Coords :
                (dst # src /\ At(dst) # None /\ At(dst).player = At(src).player) =>
                    LET r == perform_move(game, CoordPair(src, dst))
                    IN  IF RepairPair(At(src), At(dst)) /\ At(dst).health < 9
                        THEN Legal(src, dst) =>
                                 \A c \in Coords :
                                     /\ (r.game.board[c] = None) = (At(c) = None)
                                     /\ r.game.board[c].type = At(c).type
                                     /\ r.game.board[c].player = At(c).player
                        ELSE /\ ~Legal(src, dst)
                             /\ ~r.success
                             /\ r.game = game

\* C10 witness: the player to move has a legal repair, a supported repair
\* refused because the target is at health 9, and a move onto a friend that
\* no repair supports
C10_Witness ==
    /\ \E src, dst \in Coords :
           /\ OwnAt(src) /\ dst # src /\ At(dst) # None
           /\ At(dst).player = At(src).player /\ Legal(src, dst)
    /\ \E src, dst \in Coords :
           /\ OwnAt(src) /\ InList(dst, iter_adjacent(src)) /\ At(dst) # None
           /\ At(dst).player = At(src).player /\ RepairPair(At(src), At(dst))
           /\ At(dst).health = 9
           /\ ~wrong_direction(game, CoordPair(src, dst))
    /\ \E src, dst \in Coords :
           /\ OwnAt(src) /\ InList(dst, iter_adjacent(src)) /\ At(dst) # None
           /\ At(dst).player = At(src).player /\ ~RepairPair(At(src), At(dst))
           /\ ~wrong_direction(game, CoordPair(src, dst))
           /\ ~in_combat(game, CoordPair(src, dst))

\* what is left on its cell of a unit after a call changed its health
Left(unit) == IF unit.health > 0 THEN unit ELSE None

\* the damage table, by kind of the unit that deals and of the unit that takes
Damage(from, to) == damage_table[TypeValue(from.type) + 1][TypeValue(to.type) + 1]

\* C11: a legal attack takes min(damage_table[dst kind][src kind], health)
\* from the source and min(damage_table[src kind][dst kind], health) from the
\* destination, both healths being those before the attack; applying the two
\* damages in the other order gives the same game, and a unit brought to 0
\* still deals its damage.
C11_AttackDamage ==
    \A src, dst \in Coords :
        (dst # src /\ Legal(src, dst) /\ EnemyAt(src, dst)) =>
            LET s == At(src)
                d == At(dst)
                s1 == [s EXCEPT !.health = @ - Min(Damage(d, s), s.health)]
                d1 == [d EXCEPT !.health = @ - Min(Damage(s, d), d.health)]
                r == perform_move(game, CoordPair(src, dst))
                \* the destination first, the source second
                o1 == mod_health([game |-> game, touched |-> {}], dst,
                                 0 - damage_amount(s, d))
                o2 == mod_health(o1, src,
                                 0 - damage_amount(
                                         Unit_mod_health(d, 0 - damage_amount(s, d)), s))
            IN  /\ r.success
                /\ r.msg = <<"attack", src, dst>>
                /\ r.game.board = [game.board EXCEPT ![src] = Left(s1),
                                                     ![dst] = Left(d1)]
                /\ r.touched = {[coord |-> src, unit |-> s1],
                                [coord |-> dst, unit |-> d1]}
                /\ o2.game = r.game

\* C11 witness: an attack was executed in which the source was brought to 0
\* and left the board, and the destination was damaged and stayed
C11_Witness ==
    /\ result.success
    /\ result.msg[1] = "attack"
    /\ \E t \in touched : t.coord = result.msg[2] /\ t.unit.health = 0
    /\ \E t \in touched : t.coord = result.msg[3] /\ t.unit.health \in 1..8
    /\ At(result.msg[2]) = None

\* the cells around c, orthogonal and diagonal
Around(c) == iter_range(c, 1) \ {c}

\* the bottom-right corner of the board
Corner == <<Dim - 1, Dim - 1>>

\* C12: a self-destruct at c empties c and takes 2, clamped at 0 and with
\* removal at 0, from every unit on the eight cells around c; cells off the
\* board are no-ops and no other cell changes.  On the start layout the
\* self-destruct of the AI of the Attacker in the bottom-right corner leaves
\* its three neighbours at health 7, removes the AI and clears the flag.
C12_SelfDestruct ==
    /\ \A c \in Coords :
           OwnAt(c) =>
               LET r == perform_move(game, CoordPair(c, c))
                   hit(u) == [u EXCEPT !.health = @ - Min(2, u.health)]
               IN  /\ r.success
                   /\ r.msg = <<"self-destruct", c>>
                   /\ r.game.board =
                          [x \in Coords |->
                              IF x = c THEN None
                              ELSE IF x \in Around(c) /\ At(x) # None
                              THEN Left(hit(At(x)))
                              ELSE At(x)]
                   /\ \A t \in r.touched : t.coord \in Coords
    /\ LET r == perform_move(NewGame, CoordPair(Corner, Corner))
       IN  /\ r.success
           /\ r.game.board[Corner] = None
           /\ ~r.game.attacker_has_ai
           /\ r.game.defender_has_ai
           /\ \A x \in Around(Corner) \cap Coords :
                  /\ InitialBoard[x] # None
                  /\ r.game.board[x] = [InitialBoard[x] EXCEPT !.health = 7]
           /\ Cardinality(Around(Corner) \cap Coords) = 3
           /\ \A x \in Coords \ (Around(Corner) \cup {Corner}) :
                  r.game.board[x] = InitialBoard[x]

\* C12 witness: a self-destruct was executed that killed a unit on a diagonal
\* cell and left another unit around it at health 7
C12_Witness ==
    /\ result.success
    /\ result.msg[1] = "self-destruct"
    /\ At(result.msg[2]) = None
    /\ \E t \in touched :
           /\ t.coord[1] # result.msg[2][1]
           /\ t.coord[2] # result.msg[2][2]
           /\ t.unit.health = 0
           /\ At(t.coord) = None
    /\ \E t \in touched : t.coord # result.msg[2] /\ t.unit.health = 7

\* C13: a legal move onto an empty cell puts the unit of the source cell, as
\* it is, on the destination cell and empties the source cell; every other
\* cell, both has-AI flags, next_player and turns_played stay as they are.
C13_Relocation ==
    \A src, dst \in Coords :
        (Legal(src, dst) /\ At(dst) = None) =>
            LET r == perform_move(game, CoordPair(src, dst))
            IN  /\ r.success
                /\ r.msg = <<"move", src, dst>>
                /\ r.touched = {}
                /\ r.game = [game EXCEPT !.board =
                                 [x \in Coords |->
                                     IF x = dst THEN At(src)
                                     ELSE IF x = src THEN None
                                     ELSE At(x)]]

\* C13 witness: a unit that had been damaged before was moved
C13_Witness ==
    /\ result.success
    /\ result.msg[1] = "move"
    /\ At(result.msg[2]) = None
    /\ At(result.msg[3]) # None
    /\ At(result.msg[3]).health < 9

\* the repair table, by kind of the unit that repairs and of the one repaired
Repair(from, to) == repair_table[TypeValue(from.type) + 1][TypeValue(to.type) + 1]

\* C14, state part: a legal repair adds min(repair_table[src kind][dst kind],
\* 9 - health) to the health of the destination, which is at least 1, and
\* changes nothing else
C14_Amount ==
    \A src, dst \in Coords :
        (dst # src /\ Legal(src, dst) /\ At(dst) # None /\ ~EnemyAt(src, dst)) =>
            LET amount == Min(Repair(At(src), At(dst)), 9 - At(dst).health)
                d1 == [At(dst) EXCEPT !.health = @ + amount]
                r == perform_move(game, CoordPair(src, dst))
            IN  /\ amount >= 1
                /\ r.success
                /\ r.msg = <<"repair", src, dst>>
                /\ r.touched = {[coord |-> dst, unit |-> d1]}
                /\ r.game = [game EXCEPT !.board[dst] = d1]

\* C14, step part: a repair that is executed raises the health of its
\* destination
C14_Executed ==
    (result'.success /\ result'.msg[1] = "repair" /\ game' # game) =>
        get(game', result'.msg[3]).health > At(result'.msg[3]).health

\* C14: a legal repair raises the health of the destination by
\* min(repair_table[src kind][dst kind], 9 - health) and changes nothing else
\* on the board; the amount of every executed repair is at least 1.
C14_Repair == [](C14_Amount) /\ [][C14_Executed]_vars

\* C14 witness: a Tech, whose repair is worth 3, has brought a unit to 9 that
\* a blast had taken to 7: the amount was cut to 2
C14_Witness ==
    /\ result.success
    /\ result.msg[1] = "repair"
    /\ At(result.msg[2]).type = "Tech"
    /\ touched = {[coord |-> result.msg[3], unit |-> At(result.msg[3])]}
    /\ At(result.msg[3]).health = 9

\* C15: once turns_played has reached max_turns, has_winner returns the
\* Defender, whichever AIs are alive, whoever is to move and whether or not
\* the time-limit flag is set.
C15_TurnCap ==
    game.turns_played >= options.max_turns =>
        /\ has_winner(game, options, stats) = Defender
        /\ \A a, d, tl \in BOOLEAN :
               \A p \in Player :
                   has_winner([game EXCEPT !.attacker_has_ai = a,
                                           !.defender_has_ai = d,
                                           !.next_player = p],
                              options,
                              [stats EXCEPT !.time_limit = tl]) = Defender

\* C15 witness: the cap is reached in a game in which the search of the
\* Defender has just exceeded its time, so that the time-limit rule on its own
\* would name the Attacker
C15_Witness ==
    /\ game.turns_played >= options.max_turns
    /\ stats.time_limit
    /\ game.next_player = Attacker
    /\ result.success

\* the turn cap is not reached and the time-limit flag is not set
OnlyAIsDecide == game.turns_played < options.max_turns /\ ~stats.time_limit

\* C16 as stated: with the cap not reached and no time-limit flag, has_winner
\* returns the other side when the AI of exactly one side has died, and no
\* winner in every other case.
C16_AsStated ==
    OnlyAIsDecide =>
        has_winner(game, options, stats) =
            IF game.attacker_has_ai /\ ~game.defender_has_ai THEN Attacker
            ELSE IF ~game.attacker_has_ai /\ game.defender_has_ai THEN Defender
            ELSE NoWinner

\* C16: with the cap not reached and no time-limit flag, has_winner returns
\* the Defender when the AI of the Attacker has died, whether or not the AI of
\* the Defender has died with it, the Attacker when only the AI of the
\* Defender has died, and no winner when both AIs are alive.
C16_AIWinner ==
    OnlyAIsDecide =>
        has_winner(game, options, stats) =
            IF ~game.attacker_has_ai THEN Defender
            ELSE IF ~game.defender_has_ai THEN Attacker
            ELSE NoWinner

\* C16 witness: one move has killed both AIs before the cap
C16_Witness ==
    /\ OnlyAIsDecide
    /\ ~game.attacker_has_ai
    /\ ~game.defender_has_ai
    /\ \A c \in Coords : At(c) # None => At(c).type # "AI"
    /\ has_winner(game, options, stats) = Defender

\* C17, state part: below the cap, a game whose time-limit flag is set is
\* finished and won by the player to move
C17_Flag ==
    (stats.time_limit /\ game.turns_played < options.max_turns) =>
        /\ is_finished(game, options, stats)
        /\ has_winner(game, options, stats) = game.next_player

\* C17, step part: a computer turn whose search took more than max_time and
\* whose move was committed below the cap sets the flag, and the game is won
\* by the opponent of the side that moved
C17_Step ==
    ( /\ \E cut \in Cuts : ComputerTurn(cut, TRUE)
      /\ game'.turns_played = game.turns_played + 1
      /\ game'.turns_played < options.max_turns ) =>
        /\ stats'.time_limit
        /\ is_finished(game', options, stats')
        /\ has_winner(game', options, stats') = Player_next(game.next_player)

\* C17: when the search of a computer turn took longer than max_time, then
\* once the move of that turn is committed, and the cap is not reached, the
\* game is finished and its winner is the opponent of the side that moved.
C17_TimeForfeit == [](C17_Flag) /\ [][C17_Step]_vars

\* C17 witness: the computer, playing the Attacker, has committed a move after
\* too long a search; both AIs are alive and the Defender has won
C17_Witness ==
    /\ stats.time_limit
    /\ game.turns_played < options.max_turns
    /\ result.success
    /\ game.attacker_has_ai /\ game.defender_has_ai
    /\ game.next_player = Defender
    /\ has_winner(game, options, stats) = Defender

\* the moves of a sequence of candidates
Moves(candidates) == {candidates[i] : i \in 1..Len(candidates)}

\* what a node of the search makes of the game g it clones, for its move
NodeClone(g, node) ==
    [perform_move(g, node).game EXCEPT !.next_player = Player_next(@)]

\* C19, state part: whenever its clock cuts it, a search leaves the real game
\* and its own clone of it as they were, and every other object it made is
\* one of the earlier clones after one of its moves: no node has touched the
\* object of its parent, which is what its siblings start from
C19_Clones ==
    \A cut \in Cuts :
        \A sm \in {suggest_move(game, options, stats, cut)} :
            /\ Len(sm.heap) >= 2
            /\ sm.heap[1] = game
            /\ sm.heap[2] = game
            /\ \A i \in 3..Len(sm.heap) :
                   \E j \in 2..(i - 1) :
                       \E node \in Moves(move_candidates(sm.heap[j])) :
                           sm.heap[i] = NodeClone(sm.heap[j], node)

\* C19, step part: a turn, of the computer as of a human, changes the real
\* game by the move it commits and by nothing else
C19_Step ==
    \/ game' = game
    \/ \E mv \in Moves(move_candidates(game)) :
           game' = next_turn(perform_move(game, mv).game)

\* C19: suggest_move leaves the board, next_player, turns_played and both
\* has-AI flags of the real game as they were, whatever the depth and the
\* pruning; in the search the move of a node changes the clone of that node
\* only, never the game its parent and its siblings see.
C19_SearchOnClones == [](C19_Clones) /\ [][C19_Step]_vars

\* C19 witness: a search two plies deep has made its clones, one per node
\* below the root and each after another move, and its move was committed
C19_Witness ==
    /\ options.max_depth = 2
    /\ result.success
    /\ fault = "none"
    /\ clones # {}
    /\ Cardinality(clones) > 3
    /\ game.turns_played > 0
    /\ game \notin clones

\* the search returned a move that carries the best score among the top-level
\* candidates it evaluated
BestSoFar(sm) ==
    /\ ~sm.raised
    /\ DOMAIN sm.dict # {}
    /\ sm.score \in DOMAIN sm.dict
    /\ sm.move = sm.dict[sm.score]
    /\ sm.move \in Moves(move_candidates(game))
    /\ \A k \in DOMAIN sm.dict :
           IF game.next_player = Attacker THEN k <= sm.score ELSE k >= sm.score

\* C20 as stated: whenever the time test of the loop of suggest_move fires,
\* before the first candidate included, the search returns the best move among
\* the candidates evaluated so far, and no search faults on a timeout.
C20_AsStated ==
    /\ fault = "none"
    /\ \A cut \in Cuts :
           \A sm \in {suggest_move(game, options, stats, cut)} : BestSoFar(sm)

\* what does hold of a timeout: the search faults exactly when its first time
\* test fires, no candidate being evaluated yet, and returns the best move
\* among the candidates evaluated in every other case
C20_FaultsAtFirstTest ==
    \A cut \in Cuts :
        \A sm \in {suggest_move(game, options, stats, cut)} :
            IF cut = 0 THEN sm.raised /\ DOMAIN sm.dict = {} ELSE BestSoFar(sm)

\* the search of the position with pruning switched on or off, the clock
\* never running out
Search(ab) ==
    suggest_move(game, [options EXCEPT !.alpha_beta = ab],
                 NewStats(0..options.max_depth), NoCut)

\* the score the search gives each top-level candidate, in the order of
\* move_candidates
CandidateScores(ab) ==
    LET candidates == move_candidates(game)
        ctx0 == [opts |-> [options EXCEPT !.alpha_beta = ab],
                 st |-> NewStats(0..options.max_depth),
                 reads |-> 0, cut |-> NoCut, heap |-> <<game, game>>]
    IN  [n \in 1..Len(candidates) |->
            minimax(2, candidates[n], options.max_depth - 1,
                    MIN_HEURISTIC_SCORE, MAX_HEURISTIC_SCORE,
                    game.next_player = Attacker, ctx0).v]

\* the nodes a search visited
Visits(st) ==
    LET RECURSIVE Sum(_)
        Sum(d) == IF d < 0 THEN 0 ELSE st.evaluations_per_depth[d] + Sum(d - 1)
    IN  Sum(options.max_depth)

\* C18: for a position, a max_depth and a heuristic, and no time cut-off, the
\* search with alpha_beta on gives every top-level candidate the score the
\* search with alpha_beta off gives it, and returns the same best score.
C18_AlphaBetaSameScores ==
    \A on \in {Search(TRUE)} : \A off \in {Search(FALSE)} :
        /\ on.raised = off.raised
        /\ on.score = off.score
        /\ on.dict = off.dict
        /\ CandidateScores(TRUE) = CandidateScores(FALSE)

\* a computer has moved with alpha_beta on, and in the position reached the
\* pruning search visits fewer nodes than the full one
C18_Witness ==
    /\ options.alpha_beta
    /\ result.success
    /\ fault = "none"
    /\ has_winner(game, options, stats) = NoWinner
    /\ Visits(Search(TRUE).st) < Visits(Search(FALSE).st)

\* the ways to write the coordinate c that the decoder is to read alike: as
\* printed, in either case of each character, and with one separator before,
\* between or after the two characters
Spellings(c) ==
    LET t == Coord_to_string(c)
        cased == {<<a, b>> : a \in {t[1], lower(t[1])}, b \in {t[2], upper(t[2])}}
    IN  cased \cup UNION {{<<sep>> \o w, <<w[1], sep, w[2]>>, w \o <<sep>>} :
                             w \in cased, sep \in Separators}

\* C21: for every row in 0..25 and column in 0..15, Coord.from_string of the
\* text Coord.to_string gives is the coordinate again, and so is the decoding
\* of that text in the other case and with separator characters added; the
\* cells of the units on the board, as the program prints them, are decoded
\* to these cells.
C21_RoundTrip ==
    /\ \A c \in Coords :
           game.board[c] # None => Coord_from_string(Coord_to_string(c)) = c
    /\ \A row \in 0..(Len(ROW_CHARS) - 1) : \A col \in 0..(Len(COL_CHARS) - 1) :
           /\ Len(Coord_to_string(<<row, col>>)) = 2
           /\ Coord_from_string(Coord_to_string(<<row, col>>)) = <<row, col>>
           /\ \A w \in Spellings(<<row, col>>) : Coord_from_string(w) = <<row, col>>

\* a move typed as the program prints it has been decoded and performed
C21_Witness ==
    /\ result.success
    /\ game.turns_played = 1
    /\ \E mv \in TurnMoves :
           /\ result.msg = <<"move", mv.src, mv.dst>>
           /\ read_move(CoordPair_to_string(mv)) = mv
           /\ Coord_from_string(Coord_to_string(mv.dst)) = mv.dst

\* texts of a single coordinate, well formed or not: the cells of the units
\* on the board as printed, and the texts of up to three characters
CoordTexts ==
    LET chars == {"A", "d", "Z", "0", "9", "f", "F", "g", "?", "-"}
    IN  {Coord_to_string(c) : c \in {c \in Coords : game.board[c] # None}}
            \cup {<<>>} \cup {<<a>> : a \in chars} \cup {<<a, b>> : a, b \in chars}
            \cup {<<a, b, c>> : a, b, c \in chars}

\* C22 as stated: Coord.from_string and CoordPair.from_string return None for
\* every text that is malformed (wrong length, a row character outside A-Z,
\* a column character outside 0-f), and never a coordinate with a component
\* that is negative or out of range.
C22_AsStated ==
    /\ \A s \in CoordTexts :
           \/ Coord_from_string(s) = NoCoord
           \/ /\ Coord_from_string(s)[1] \in 0..25
              /\ Coord_from_string(s)[2] \in 0..15
    /\ \A s \in TypedLines :
           \/ CoordPair_from_string(s) = NoCoord
           \/ \A c \in {CoordPair_from_string(s).src, CoordPair_from_string(s).dst} :
                  c[1] \in 0..25 /\ c[2] \in 0..15

\* what does hold of a malformed text: None is returned for a wrong length
\* only; a character outside its table gives the component -1, and it is
\* read_move that refuses such a line
C22_MinusOne ==
    /\ \A s \in CoordTexts :
           LET t == without_separators(strip(s))
           IN  IF Len(t) # 2 THEN Coord_from_string(s) = NoCoord
               ELSE /\ Coord_from_string(s) # NoCoord
                    /\ Coord_from_string(s)[1] \in (0 - 1)..25
                    /\ Coord_from_string(s)[2] \in (0 - 1)..15
                    /\ Coord_from_string(s)[1] = 0 - 1
                           <=> ~InList(upper(t[1]), ROW_CHARS)
                    /\ Coord_from_string(s)[2] = 0 - 1
                           <=> ~InList(lower(t[2]), COL_CHARS)
    /\ \A s \in TypedLines :
           read_move(s) # NoCoord =>
               is_valid_coord(read_move(s).src) /\ is_valid_coord(read_move(s).dst)

\* the value minimax returns for the move node made in position g, when
\* called with depth and maximizing, with no pruning and no time cut-off
ValueOf(g, node, depth, maximizing) ==
    minimax(1, node, depth, MIN_HEURISTIC_SCORE, MAX_HEURISTIC_SCORE, maximizing,
            [opts |-> [options EXCEPT !.alpha_beta = FALSE],
             st |-> NewStats(0..options.max_depth),
             reads |-> 0, cut |-> NoCut, heap |-> <<g>>]).v

\* the values of the children of that node: the moves of its position
\* NodeClone(g, node), each called as the loop of minimax calls it
ChildValues(g, node, depth, maximizing) ==
    {ValueOf(NodeClone(g, node), child_node, depth - 1, ~maximizing) :
        child_node \in Moves(move_candidates(NodeClone(g, node)))}

SetMax(S) == CHOOSE m \in S : \A x \in S : x <= m
SetMin(S) == CHOOSE m \in S : \A x \in S : x >= m

C23_OneLevelOff ==
    \A node \in Moves(move_candidates(game)) :
        \A kids \in {ChildValues(game, node, options.max_depth - 1,
                                 game.next_player = Attacker)} :
            kids # {} =>
                ValueOf(game, node, options.max_depth - 1,
                        game.next_player = Attacker)
                    = IF NodeClone(game, node).next_player = Attacker
                      THEN SetMin(kids) ELSE SetMax(kids)

\* the value minimax returns for the move node made in position g when it
\* cuts the node off: at depth 0, or at depth 1 with the time margin reached
\* at its first clock read
CutoffValues(g, node) ==
    LET ctx(cut) == [opts |-> options, st |-> NewStats(0..options.max_depth),
                     reads |-> 0, cut |-> cut, heap |-> <<g>>]
    IN  {minimax(1, node, 0, MIN_HEURISTIC_SCORE, MAX_HEURISTIC_SCORE,
                 g.next_player = Attacker, ctx(NoCut)).v,
         minimax(1, node, 1, MIN_HEURISTIC_SCORE, MAX_HEURISTIC_SCORE,
                 g.next_player = Attacker, ctx(0)).v}

\* C24 as stated: the score of a node that is cut off (depth 0, or time margin
\* reached) is the heuristic value of the position its move leads to, so
\* that cut-off candidates leading to positions of different heuristic value
\* get different scores.
C24_AsStated ==
    \A node \in Moves(move_candidates(game)) :
        CutoffValues(game, node)
            = {heuristics(perform_move(game, node).game, options)}

\* what the code does: the score of a node that is cut off is the heuristic
\* value of the position the node's move is made in, the same for all the
\* candidates of that position
C24_ParentPosition ==
    \A node \in Moves(move_candidates(game)) :
        CutoffValues(game, node) = {heuristics(game, options)}

\* the place of a move in the order of generation: the units row by row,
\* for each its moves up, left, down, right, then its self-destruct
Rank(move) ==
    (move.src[1] * Dim + move.src[2]) * 5
        + (IF move.dst = move.src THEN 4
           ELSE (CHOOSE i \in 1..4 : iter_adjacent(move.src)[i] = move.dst) - 1)

\* C25: suggest_move returns as score the maximum (Attacker to move) or the
\* minimum (Defender to move) of the values of the top-level candidates it
\* evaluated and as move a candidate that got this score, the one generated
\* last when several did; the candidates are generated unit by unit in
\* row-major order, up, left, down, right, then the self-destruct.
C25_BestLast ==
    /\ \A candidates \in {move_candidates(game)} :
           /\ \A i, j \in 1..Len(candidates) :
                  i < j => Rank(candidates[i]) < Rank(candidates[j])
           /\ Len(candidates) > 0 =>
                  \A sm \in {suggest_move(game, options, stats, NoCut)} :
                  \A scores \in {CandidateScores(options.alpha_beta)} :
                  \A best \in {IF game.next_player = Attacker
                                THEN SetMax({scores[n] : n \in DOMAIN scores})
                                ELSE SetMin({scores[n] : n \in DOMAIN scores})} :
                      /\ ~sm.raised
                      /\ sm.score = best
                      /\ \E n \in DOMAIN scores :
                             /\ sm.move = candidates[n]
                             /\ scores[n] = best
                             /\ \A m \in DOMAIN scores : scores[m] = best => m <= n
    /\ \A cut \in Cuts \ {0, NoCut} :
           BestSoFar(suggest_move(game, options, stats, cut))

\* a computer has moved and is to move again, in a position where two of its
\* candidates tie for the best score
C25_Witness ==
    /\ result.success /\ clones # {} /\ fault = "none"
    /\ ~HumanToMove
    /\ has_winner(game, options, stats) = NoWinner
    /\ \E sm \in {suggest_move(game, options, stats, NoCut)} :
       \E scores \in {CandidateScores(options.alpha_beta)} :
           /\ ~sm.raised
           /\ \E m, n \in DOMAIN scores :
                  m < n /\ scores[m] = sm.score /\ scores[n] = sm.score
           /\ \E n \in DOMAIN scores : scores[n] # sm.score

\* the three evaluators
Evaluators == {"e0", "e1", "e2"}

\* C26 as stated: for each of e0, e1 and e2, a position in which exactly one
\* AI has been eliminated evaluates to about the sentinel extreme, near
\* MAX_HEURISTIC_SCORE when the Defender's AI is gone and near
\* MIN_HEURISTIC_SCORE when the Attacker's AI is gone (within half of it).
C26_AsStated ==
    \A e \in Evaluators :
        /\ game.attacker_has_ai /\ ~game.defender_has_ai =>
               heuristics(game, [options EXCEPT !.e = e])
                   >= MAX_HEURISTIC_SCORE \div 2
        /\ ~game.attacker_has_ai /\ game.defender_has_ai =>
               0 - heuristics(game, [options EXCEPT !.e = e])
                   >= MAX_HEURISTIC_SCORE \div 2

\* what the code computes: no evaluator looks at the sentinels; the value of
\* a position with one AI gone is 9999 times the surviving AI's weight (1 for
\* e0, its health for e1 and e2) plus a two-digit term, with the sign of the
\* survivor's side
C26_Weighted ==
    \A e \in Evaluators :
        \A h \in {heuristics(game, [options EXCEPT !.e = e])} :
            /\ h < 100000 /\ 0 - h < 100000
            /\ game.attacker_has_ai /\ ~game.defender_has_ai =>
                   \E c \in Coords :
                       /\ game.board[c] = Unit(Attacker, "AI", game.board[c].health)
                       /\ \A w \in {IF e = "e0" THEN 1 ELSE game.board[c].health} :
                              h - 9999 * w \in (0 - 99)..99
            /\ ~game.attacker_has_ai /\ game.defender_has_ai =>
                   \E c \in Coords :
                       /\ game.board[c] = Unit(Defender, "AI", game.board[c].health)
                       /\ \A w \in {IF e = "e0" THEN 1 ELSE game.board[c].health} :
                              h + 9999 * w \in (0 - 99)..99

\* the calls of minimax a search counted, from its Stats st
Calls(st) ==
    LET RECURSIVE Sum(_)
        Sum(d) == IF d < 1 THEN 0 ELSE st.evaluations_per_depth[d] + Sum(d - 1)
    IN  Sum(options.max_depth)

\* C27, state part: the counters are kept for the depths 0..max_depth, and
\* the root counter holds the number of searches made so far, one for each
\* turn of a game between two computers
C27_Counters ==
    /\ DOMAIN stats.evaluations_per_depth = 0..options.max_depth
    /\ options.game_type = "CompVsComp" =>
           stats.evaluations_per_depth[0]
               = game.turns_played + (IF fault = "none" THEN 0 ELSE 1)

\* C27, step part: no counter of evaluations_per_depth ever decreases; a
\* search adds to the counters it finds exactly what it would add to counters
\* at 0 (1 at depth 0, and 1 at depth max_depth - depth for each call of
\* minimax), while non_leaf and non_root come out as from a first search:
\* they were reset.  Every child counted in non_root is a call of minimax
\* unless pruning skipped it.
C27_Step ==
    /\ \A d \in 0..options.max_depth :
           stats'.evaluations_per_depth[d] >= stats.evaluations_per_depth[d]
    /\ ~HumanToMove /\ stats' # stats =>
           /\ stats'.evaluations_per_depth[0] = stats.evaluations_per_depth[0] + 1
           /\ \E cut \in Cuts :
              \E fresh \in {suggest_move(game, options,
                                         NewStats(0..options.max_depth), cut).st} :
                  /\ stats'.non_leaf = fresh.non_leaf
                  /\ stats'.non_root = fresh.non_root
                  /\ \A d \in 0..options.max_depth :
                         stats'.evaluations_per_depth[d]
                             = stats.evaluations_per_depth[d]
                                   + fresh.evaluations_per_depth[d]
                  /\ Calls(fresh) <= fresh.non_root
                  /\ ~options.alpha_beta => Calls(fresh) = fresh.non_root

C27_StatsCumulative == [](C27_Counters) /\ [][C27_Step]_vars

\* two searches have been made: the counter of depth 1 holds the calls of
\* both, non_root the children of the second only
C27_Witness ==
    /\ options.game_type = "CompVsComp"
    /\ game.turns_played = 2
    /\ stats.evaluations_per_depth[0] = 2
    /\ stats.non_root > 0
    /\ stats.evaluations_per_depth[1] > stats.non_root

\* the time test of C28: the time left is at most max_time / max_depth / 10,
\* both sides multiplied by 10 * max_depth
time_test_proportional(opts, elapsed) ==
    (opts.max_time - elapsed) * 10 * opts.max_depth <= opts.max_time

\* the first read of clock c at which that test holds
ProportionalCut(opts, c) ==
    IF time_test_proportional(opts, c.early) THEN 0
    ELSE IF time_test_proportional(opts, c.late) THEN c.jump
    ELSE NoCut

\* the search of a step is the search cut off at read number cut
SearchedUpTo(cut) ==
    \E sm \in {suggest_move(game, options, stats, cut)} :
        /\ stats'.evaluations_per_depth = sm.st.evaluations_per_depth
        /\ stats'.non_leaf = sm.st.non_leaf
        /\ stats'.non_root = sm.st.non_root
        /\ clones' = {sm.heap[i] : i \in 2..Len(sm.heap)}
        /\ (fault' = "ValueError") = sm.raised

\* C28 as stated: a search under a clock visits the nodes of the search that
\* treats a node as a leaf, and leaves the loop over the candidates, at the
\* first read at which the time left is at most max_time / max_depth / 10
C28_AsStated == [][SearchedUpTo(ProportionalCut(options, clock'))]_vars

\* What the code does: the margin is (1 / max_depth) / 10 seconds whatever
\* max_time is.  A search visits the nodes of the search cut off at the first
\* read at which the time left, in ticks, times 10 * max_depth is at most the
\* ticks of one second.
C28_FixedMargin ==
    [][LET left(t) == (options.max_time - t) * 10 * options.max_depth
       IN  SearchedUpTo(IF left(clock'.early) <= TicksPerSecond THEN 0
                        ELSE IF left(clock'.late) <= TicksPerSecond
                        THEN clock'.jump ELSE NoCut)]_vars

\* every candidate move_candidates yields for g is performed on g
AllPerformed(g) ==
    \A move \in Moves(move_candidates(g)) : perform_move(g, move).success

\* C29: in a game that has no winner yet, move_candidates yields at least one
\* move for the player to move and perform_move performs every move it
\* yields; and in the position a node of the search makes of each of these
\* moves, perform_move again performs every candidate of the next player, so
\* a node never meets a candidate it cannot perform.
C29_CandidatesLegal ==
    has_winner(game, options, stats) = NoWinner =>
        \A candidates \in {move_candidates(game)} :
            /\ Len(candidates) > 0
            /\ AllPerformed(game)
            /\ \A node \in Moves(candidates) : AllPerformed(NodeClone(game, node))

\* an unfinished game in which a unit of the player to move stands next to a
\* unit of its own side that it cannot repair: is_valid_move answers neither
\* True nor False for that move, and the move is no candidate
C29_Witness ==
    /\ has_winner(game, options, stats) = NoWinner
    /\ game.turns_played > 0
    /\ \E src \in Coords : \E i \in 1..4 :
           /\ get(game, src) # None
           /\ get(game, src).player = game.next_player
           /\ is_valid_move(game, CoordPair(src, iter_adjacent(src)[i])) = PyNone
           /\ CoordPair(src, iter_adjacent(src)[i]) \notin Moves(move_candidates(game))
    /\ Len(move_candidates(game)) > 1

\* the distance between two cells, in steps along rows and columns
Steps(a, b) ==
    (IF a[1] >= b[1] THEN a[1] - b[1] ELSE b[1] - a[1])
        + (IF a[2] >= b[2] THEN a[2] - b[2] ELSE b[2] - a[2])

\* C30: a move is_valid_move accepts has its source and its destination on
\* the board, a unit of the player to move on the source, and a destination
\* at most one step from the source along a row or a column: the source
\* itself or one of its four neighbours, never a diagonal or a farther cell,
\* whatever the kind of the unit.
C30_AcceptedMovesLocal ==
    \A src \in ExtCoords : \A dst \in ExtCoords :
        Truthy(is_valid_move(game, CoordPair(src, dst))) =>
            /\ is_valid_coord(src) /\ is_valid_coord(dst)
            /\ game.board[src] # None
            /\ game.board[src].player = game.next_player
            /\ Steps(src, dst) <= 1
            /\ dst = src \/ InList(dst, iter_adjacent(src))

\* a move has been played, and the player to move has a Tech or a Virus with
\* an empty cell two steps away, diagonally and in a straight line, and with
\* a neighbour it may enter
C30_Witness ==
    /\ game.turns_played > 0
    /\ \E src \in Coords :
           /\ game.board[src] # None
           /\ game.board[src].player = game.next_player
           /\ game.board[src].type \in {"Tech", "Virus"}
           /\ \E far \in Coords :
                  /\ game.board[far] = None
                  /\ far[1] # src[1] /\ far[2] # src[2] /\ Steps(src, far) = 2
           /\ \E far \in Coords :
                  /\ game.board[far] = None
                  /\ (far[1] = src[1] \/ far[2] = src[2]) /\ Steps(src, far) = 2
           /\ \E dst \in Coords :
                  dst # src /\ Truthy(is_valid_move(game, CoordPair(src, dst)))

\* dst is the upper or left neighbour of src for the Attacker, the lower or
\* right neighbour for the Defender
Forward(player, src, dst) ==
    IF player = Attacker
    THEN dst = <<src[1] - 1, src[2]>> \/ dst = <<src[1], src[2] - 1>>
    ELSE dst = <<src[1] + 1, src[2]>> \/ dst = <<src[1], src[2] + 1>>

\* a unit of the side of the unit at src stands at dst, another cell
FriendAt(src, dst) ==
    dst # src /\ At(dst) # None /\ At(dst).player = At(src).player

\* C31: an AI of the player to move is accepted onto a unit of its own side
\* only when that unit is a damaged Tech or Virus on its upper or left
\* neighbour (Attacker), its lower or right neighbour (Defender), and it is
\* accepted there when it is not in combat; a Tech is accepted onto a damaged
\* AI, Firewall or Program of its side on any of its four neighbours.
C31_RepairDirections ==
    \A src \in Coords : \A dst \in Coords :
        (OwnAt(src) /\ FriendAt(src, dst)) =>
            /\ At(src).type = "AI" =>
                   /\ Legal(src, dst) =>
                          /\ At(dst).type \in {"Tech", "Virus"}
                          /\ At(dst).health # 9
                          /\ Forward(At(src).player, src, dst)
                   /\ (/\ At(dst).type \in {"Tech", "Virus"}
                       /\ At(dst).health # 9
                       /\ Forward(At(src).player, src, dst)
                       /\ ~Engaged(src)) => Legal(src, dst)
            /\ (/\ At(src).type = "Tech"
                /\ Steps(src, dst) = 1
                /\ At(dst).type \in {"AI", "Firewall", "Program"}
                /\ At(dst).health # 9) => Legal(src, dst)

\* after a move, the AI of the player to move, not in combat, stands next to
\* a damaged Tech or Virus of its side
AIBesideDamaged(forward) ==
    /\ game.turns_played > 2 * MidRound
    /\ \E src \in Coords : \E dst \in Coords :
           /\ OwnAt(src) /\ At(src).type = "AI" /\ ~Engaged(src)
           /\ FriendAt(src, dst) /\ Steps(src, dst) = 1
           /\ At(dst).type \in {"Tech", "Virus"} /\ At(dst).health # 9
           /\ Forward(At(src).player, src, dst) = forward
           /\ Legal(src, dst) = forward

\* C31 witness: a repair by an AI against its direction, which nothing but
\* the direction test refuses
C31_Witness == AIBesideDamaged(FALSE)

\* the game with the other player to move
OtherToMove(g) == [g EXCEPT !.next_player = Player_next(@)]

\* C32: heuristics gives a position the same score whichever player is to
\* move, under each of e0, e1 and e2: the units of the Attacker are counted
\* for the Attacker and those of the Defender for the Defender.
C32_ScoreIgnoresMover ==
    \A e \in Evaluators :
        \A opts \in {[options EXCEPT !.e = e]} :
            /\ heuristics(game, opts) = heuristics(OtherToMove(game), opts)
            /\ sides(game).attacker_units = player_units(game, Attacker)
            /\ sides(game).defender_units = player_units(game, Defender)

\* a move has been played, the Defender is to move, and the score of the
\* position would be another with the sides exchanged, under each evaluator
C32_Witness ==
    /\ game.turns_played > 2 * MidRound
    /\ game.next_player = Defender
    /\ \A e \in Evaluators :
           \A opts \in {[options EXCEPT !.e = e]} :
               heuristics(game, opts)
                   # heuristics([game EXCEPT !.board =
                         [c \in Coords |->
                             IF game.board[c] = None THEN None
                             ELSE [game.board[c] EXCEPT !.player = Player_next(@)]]],
                                 opts)

\* has_winner returns a winner
Won == has_winner(game, options, stats) # NoWinner

\* C33: with turns completing, the game comes to a state where has_winner
\* returns a winner, unless a search ends the program with an exception (a
\* turn that does not complete); no more than max_turns moves are ever
\* completed, each turn that passes to the other player counting for one and
\* only a move performed with success counting; and every step of the game
\* starts where there is no winner yet: once there is one, no move is
\* performed.
C33_GameEnds ==
    /\ <>(Won \/ fault # "none")
    /\ [](game.turns_played <= options.max_turns)
    /\ [][/\ ~Won
          /\ game'.turns_played > game.turns_played => result'.success
          /\ game'.next_player # game.next_player =>
                 game'.turns_played = game.turns_played + 1]_vars

\* the game has ended on the turn limit, its last move performed with success
C33_Witness ==
    /\ Won
    /\ game.turns_played = options.max_turns
    /\ ~stats.time_limit
    /\ result.success
    /\ fault = "none"

====
